---- MODULE Spec2Model ----
(***************************************************************************)
(* Model of the path-addressable step tree of JamieM0/routines:            *)
(* expand-node.py (find_node_by_path, find_node_by_step_text, expand_node, *)
(* update_tree_at_path) over the response parser of utils.py, followed by  *)
(* the response parser on its own (SpecParse), parse_embedded_json         *)
(* (SpecEmbedded), the directory tree of hallucinate-tree.py (SpecFs) and  *)
(* its generate_task_tree (SpecGen, SpecGenFair), main() of expand-node.py  *)
(* from its command line to its exit (SpecMain) and the pipeline of        *)
(* flow-maker.py (SpecFlow, SpecFlowFair).                                 *)
(*                                                                         *)
(* Python dicts are objects with identity, so the model keeps a heap: a    *)
(* sequence of cells addressed by their index.  A cell is one JSON value:  *)
(* a dict (step node), a list or a string.  The list held under a dict's   *)
(* "children" key is stored inside the dict's cell: none of the modelled   *)
(* functions shares a children list between two dicts (expand_node always  *)
(* assigns a newly built list, update_tree_at_path works on a deep copy).  *)
(***************************************************************************)
EXTENDS Integers, Sequences, FiniteSets, TLC

VARIABLES heap, root, target_node, node_path_in_tree, pre, last, main,
          norm, emb, disk, gen, flow

vars == <<heap, root, target_node, node_path_in_tree, pre, last, main,
          norm, emb, disk, gen, flow>>

\* the variables of expand-node.py's main() (main is the program as a whole:
\* its command line, its input file, where it is and what it has put out);
\* each of the other programs has one variable: norm for the response parser
\* of utils.py, emb for parse_embedded_json, disk for the directory tree of
\* hallucinate-tree.py, gen for its generate_task_tree and flow for
\* flow-maker.py
treeVars == <<heap, root, target_node, node_path_in_tree, pre, last, main>>
\* a program that was not started
Idle == [op |-> "idle"]

(***************************************************************************)
(* Bounds of the model.                                                    *)
(***************************************************************************)
\* largest number of nodes of an input tree
MaxNodes == 3
\* longest index path handed to find_node_by_path / update_tree_at_path
MaxPathLen == 2

\* step texts of the nodes of input trees
Labels == {"A", "B"}
\* step texts searched for by find_node_by_step_text ("Z" is on no node)
SearchLabels == {"A", "B", "Z"}
\* indices of a path: valid, too large, negative, too negative
PathIndices == -2 .. 2

(***************************************************************************)
(* Python values.                                                          *)
(***************************************************************************)
\* Python's None where an object is expected; heap addresses start at 1
None == 0
\* a key that a dict does not have
NoStep == "<no step key>"
NoUuid == <<>>

\* JSON value: t is "dict", "list" or "str"; a dict has an optional step, an
\* optional uuid and an optional children list (has = the key is present);
\* a list keeps its items in children; a str keeps its text in step.
JDict(step, uuid, has, children) ==
    [t |-> "dict", step |-> step, uuid |-> uuid, has |-> has, children |-> children]

JList(items) ==
    [t |-> "list", step |-> NoStep, uuid |-> NoUuid, has |-> TRUE, children |-> items]

JStr(text) ==
    [t |-> "str", step |-> text, uuid |-> NoUuid, has |-> FALSE, children |-> <<>>]

\* seq[index] of Python for an index the list accepts (negative indices count
\* from the end)
PyInRange(seq, index) == index < Len(seq) /\ index >= 0 - Len(seq)

PyGet(seq, index) ==
    IF index >= 0 THEN seq[index + 1] ELSE seq[Len(seq) + index + 1]

PySet(seq, index, v) ==
    IF index >= 0 THEN [seq EXCEPT ![index + 1] = v]
    ELSE [seq EXCEPT ![Len(seq) + index + 1] = v]

(***************************************************************************)
(* json.dumps / json.loads between heap objects and JSON values.           *)
(***************************************************************************)
RECURSIVE JsonDumps(_, _)
JsonDumps(h, a) ==
    [t |-> h[a].t, step |-> h[a].step, uuid |-> h[a].uuid, has |-> h[a].has,
     children |-> [i \in 1 .. Len(h[a].children) |-> JsonDumps(h, h[a].children[i])]]

RECURSIVE JsonLoads(_, _)
RECURSIVE JsonLoadsAll(_, _, _)
\* builds the objects of the values vs one after the other; addrs collects them
JsonLoadsAll(h, vs, addrs) ==
    IF vs = <<>> THEN [heap |-> h, addrs |-> addrs]
    ELSE LET r == JsonLoads(h, Head(vs))
         IN  JsonLoadsAll(r.heap, Tail(vs), Append(addrs, r.addr))

\* builds new objects for the value v; the result is the new heap and the
\* address of the object for v
JsonLoads(h, v) ==
    LET r == JsonLoadsAll(h, v.children, <<>>)
        cell == [t |-> v.t, step |-> v.step, uuid |-> v.uuid, has |-> v.has,
                 children |-> r.addrs]
    IN  [heap |-> Append(r.heap, cell), addr |-> Len(r.heap) + 1]

\* the objects reachable from a (a itself included)
RECURSIVE Reach(_, _)
Reach(h, a) ==
    {a} \cup UNION {Reach(h, h[a].children[i]) : i \in 1 .. Len(h[a].children)}

(***************************************************************************)
(* find_node_by_path                                                       *)
(***************************************************************************)
FindResult(node, path, pathIsNone, raised) ==
    [node |-> node, path |-> path, pathIsNone |-> pathIsNone, raised |-> raised]

\* "children" not in current: true of a dict without the key, of a list and
\* of a str (none of the modelled strings contains the word)
LacksChildren(h, a) == h[a].t # "dict" \/ ~h[a].has

RECURSIVE FindWalk(_, _, _, _, _)
FindWalk(h, current, path, i, current_path) ==
    IF i > Len(path) THEN FindResult(current, current_path, FALSE, FALSE)
    ELSE LET index == path[i]
         IN  IF LacksChildren(h, current) \/ index >= Len(h[current].children)
             THEN FindResult(None, <<>>, FALSE, FALSE)
             ELSE IF ~PyInRange(h[current].children, index)
             THEN FindResult(None, <<>>, FALSE, TRUE)     \* IndexError
             ELSE FindWalk(h, PyGet(h[current].children, index), path, i + 1,
                           Append(current_path, index))

find_node_by_path(h, tree, path) ==
    IF path = <<>> THEN FindResult(tree, <<>>, FALSE, FALSE)
    ELSE FindWalk(h, tree, path, 1, <<>>)

(***************************************************************************)
(* find_node_by_step_text                                                  *)
(***************************************************************************)
\* truth value of a Python object: an empty dict, list or str is false
Truthy(h, a) ==
    IF a = None THEN FALSE
    ELSE IF h[a].t = "dict" THEN h[a].step # NoStep \/ h[a].uuid # NoUuid \/ h[a].has
    ELSE IF h[a].t = "list" THEN h[a].children # <<>>
    ELSE h[a].step # ""

RECURSIVE FindByStep(_, _, _, _)
RECURSIVE FindInChildren(_, _, _, _, _)
RECURSIVE FindByStepChildrenFirst(_, _, _, _)
\* the loop over enumerate(children), from the i-th child (counted from 1) on
FindInChildren(h, tree, step_text, path, i) ==
    IF i > Len(h[tree].children) THEN FindResult(None, <<>>, TRUE, FALSE)
    ELSE LET r == FindByStep(h, h[tree].children[i], step_text, Append(path, i - 1))
         IN  IF r.raised THEN r
             ELSE IF Truthy(h, r.node) THEN r
             ELSE FindInChildren(h, tree, step_text, path, i + 1)

\* find_node_by_step_text that looks at the children before the node itself
FindByStepChildrenFirst(h, tree, step_text, path) ==
    IF h[tree].t # "dict" THEN FindResult(None, <<>>, FALSE, TRUE)
    ELSE LET r == IF h[tree].has THEN FindInChildren(h, tree, step_text, path, 1)
                  ELSE FindResult(None, <<>>, TRUE, FALSE)
         IN  IF r.raised \/ r.node # None THEN r
             ELSE IF h[tree].step = step_text THEN FindResult(tree, path, FALSE, FALSE)
             ELSE FindResult(None, <<>>, TRUE, FALSE)

FindByStep(h, tree, step_text, path) ==
    IF h[tree].t # "dict" THEN FindResult(None, <<>>, FALSE, TRUE)   \* no .get
    ELSE IF h[tree].step = step_text THEN FindResult(tree, path, FALSE, FALSE)
    ELSE IF ~h[tree].has THEN FindResult(None, <<>>, TRUE, FALSE)
    ELSE FindInChildren(h, tree, step_text, path, 1)

find_node_by_step_text(h, tree, step_text) == FindByStep(h, tree, step_text, <<>>)

(***************************************************************************)
(* Response texts.  A text is a sequence of tokens; a token stands for the *)
(* characters it spells.  In the spellings <fence> stands for the three    *)
(* backticks of a code fence and ' for the double quote of JSON.  A key    *)
(* and its value are one token, so that every text that is valid JSON is a *)
(* list, a dict with an optional string step and an optional children      *)
(* list, or a string.                                                      *)
(***************************************************************************)
FenceJson == "<fence>json"
Fence == "<fence>"
NL == "<newline>"
SP == " "
Hash == "#"
LBracket == "["
RBracket == "]"
LBrace == "{"
RBrace == "}"
Comma == ","
StepA == "'step':'A'"
StepC == "'step':'C'"
StepD == "'step':'D'"
ChildrenOpen == "'children':["
StrC == "'C'"
\* a step whose string is itself the text of a JSON list (~ stands for the
\* backslash that escapes a quote)
StepNested == "'step':'[~'C~']'"
WordDo == "Do"
WordGo == "Go"

StepTokens == {StepA, StepC, StepD, StepNested}
StepOf(tok) ==
    IF tok = StepA THEN "A" ELSE IF tok = StepC THEN "C"
    ELSE IF tok = StepD THEN "D" ELSE "['C']"
StrTokens == {StrC}
StrOf(tok) == "C"

IsSpace(tok) == tok \in {NL, SP}

RECURSIVE Strip(_)
\* str.strip()
Strip(ts) ==
    IF ts = <<>> THEN ts
    ELSE IF IsSpace(Head(ts)) THEN Strip(Tail(ts))
    ELSE IF IsSpace(ts[Len(ts)]) THEN Strip(SubSeq(ts, 1, Len(ts) - 1))
    ELSE ts

\* a cleaning that takes out the bare fence alone
clean_keeping_json_fence(response_text) ==
    Strip(SelectSeq(response_text, LAMBDA tok : tok # Fence))

\* .replace("<fence>json", "").replace("<fence>", "").strip()
clean_llm_json_response(response_text) ==
    Strip(SelectSeq(SelectSeq(response_text, LAMBDA tok : tok # FenceJson),
                    LAMBDA tok : tok # Fence))

(***************************************************************************)
(* json.loads of a text: a parser of the JSON grammar over the tokens.     *)
(* Every parse result is [ok, v, next]: v the value read, next the         *)
(* position after it.                                                      *)
(***************************************************************************)
ParseFail == [ok |-> FALSE, v |-> JStr(""), next |-> 0]
ParseOk(v, next) == [ok |-> TRUE, v |-> v, next |-> next]

RECURSIVE SkipWs(_, _)
SkipWs(ts, i) ==
    IF i <= Len(ts) /\ IsSpace(ts[i]) THEN SkipWs(ts, i + 1) ELSE i

RECURSIVE ParseValue(_, _)
RECURSIVE ParseList(_, _)
RECURSIVE ParseListRest(_, _, _)
RECURSIVE ParseObject(_, _)
RECURSIVE ParseMember(_, _, _)
RECURSIVE ParseObjectRest(_, _, _)

\* after an item of a list: "]" ends the list, "," brings the next item
ParseListRest(ts, i, items) ==
    LET j == SkipWs(ts, i)
    IN  IF j > Len(ts) THEN ParseFail
        ELSE IF ts[j] = RBracket THEN ParseOk(JList(items), j + 1)
        ELSE IF ts[j] = Comma
        THEN LET r == ParseValue(ts, j + 1)
             IN  IF r.ok THEN ParseListRest(ts, r.next, Append(items, r.v))
                 ELSE ParseFail
        ELSE ParseFail

\* after the "[" of a list
ParseList(ts, i) ==
    LET j == SkipWs(ts, i)
    IN  IF j > Len(ts) THEN ParseFail
        ELSE IF ts[j] = RBracket THEN ParseOk(JList(<<>>), j + 1)
        ELSE LET r == ParseValue(ts, j)
             IN  IF r.ok THEN ParseListRest(ts, r.next, <<r.v>>) ELSE ParseFail

\* after a member of a dict: "}" ends the dict, "," brings the next member
ParseObjectRest(ts, i, d) ==
    LET j == SkipWs(ts, i)
    IN  IF j > Len(ts) THEN ParseFail
        ELSE IF ts[j] = RBrace THEN ParseOk(d, j + 1)
        ELSE IF ts[j] = Comma THEN ParseMember(ts, SkipWs(ts, j + 1), d)
        ELSE ParseFail

\* one member, key and value; a repeated key overwrites the earlier one
ParseMember(ts, j, d) ==
    IF j > Len(ts) THEN ParseFail
    ELSE IF ts[j] \in StepTokens
    THEN ParseObjectRest(ts, j + 1, [d EXCEPT !.step = StepOf(ts[j])])
    ELSE IF ts[j] = ChildrenOpen
    THEN LET r == ParseList(ts, j + 1)
         IN  IF r.ok
             THEN ParseObjectRest(ts, r.next,
                                  [d EXCEPT !.has = TRUE, !.children = r.v.children])
             ELSE ParseFail
    ELSE ParseFail

\* after the "{" of a dict
ParseObject(ts, i) ==
    LET j == SkipWs(ts, i)
        d == JDict(NoStep, NoUuid, FALSE, <<>>)
    IN  IF j > Len(ts) THEN ParseFail
        ELSE IF ts[j] = RBrace THEN ParseOk(d, j + 1)
        ELSE ParseMember(ts, j, d)

ParseValue(ts, i) ==
    LET j == SkipWs(ts, i)
    IN  IF j > Len(ts) THEN ParseFail
        ELSE IF ts[j] = LBracket THEN ParseList(ts, j + 1)
        ELSE IF ts[j] = LBrace THEN ParseObject(ts, j + 1)
        ELSE IF ts[j] \in StrTokens THEN ParseOk(JStr(StrOf(ts[j])), j + 1)
        ELSE ParseFail

\* ok is false where json.loads raises JSONDecodeError
json_loads(ts) ==
    LET r == ParseValue(ts, 1)
    IN  IF r.ok /\ SkipWs(ts, r.next) > Len(ts) THEN r ELSE ParseFail

(***************************************************************************)
(* parse_llm_json_response                                                 *)
(***************************************************************************)
RECURSIVE SplitLines(_, _)
\* str.split("\n"): line collects the tokens of the line being read
SplitLines(ts, line) ==
    IF ts = <<>> THEN <<line>>
    ELSE IF Head(ts) = NL THEN <<line>> \o SplitLines(Tail(ts), <<>>)
    ELSE SplitLines(Tail(ts), Append(line, Head(ts)))

RECURSIVE Spell(_)
\* the string a sequence of tokens spells
Spell(ts) == IF ts = <<>> THEN "" ELSE Head(ts) \o Spell(Tail(ts))

\* a fallback that keeps the comment lines
FallbackLinesWithComments(cleaned_text) ==
    LET stripped == [i \in 1 .. Len(SplitLines(cleaned_text, <<>>)) |->
                        Strip(SplitLines(cleaned_text, <<>>)[i])]
    IN  SelectSeq(stripped, LAMBDA s : s # <<>>)

\* the lines the fallback keeps, stripped, in their order
FallbackLines(cleaned_text) ==
    LET stripped == [i \in 1 .. Len(SplitLines(cleaned_text, <<>>)) |->
                        Strip(SplitLines(cleaned_text, <<>>)[i])]
    IN  SelectSeq(stripped, LAMBDA s : s # <<>> /\ Head(s) # Hash)

\* a parser without the except clause: the JSONDecodeError leaves the call
UncaughtJSONDecodeError(cleaned_text, include_children) ==
    [raised |-> TRUE, v |-> JList(<<>>)]

\* except json.JSONDecodeError: the list of the lines of the text, built by
\* string operations that raise nothing
ExceptJSONDecodeError(cleaned_text, include_children) ==
    LET lines == FallbackLines(cleaned_text)
    IN  [raised |-> FALSE,
         v |-> JList([i \in 1 .. Len(lines) |->
                         JDict(Spell(lines[i]), NoUuid, include_children, <<>>)])]

\* what a call of parse_llm_json_response ends with: the value it returns,
\* or an exception that leaves it
ParseOutcome(response_text, include_children) ==
    LET cleaned_text == clean_llm_json_response(response_text)
        parsed == json_loads(cleaned_text)
    IN  IF parsed.ok THEN [raised |-> FALSE, v |-> parsed.v]
        ELSE ExceptJSONDecodeError(cleaned_text, include_children)

parse_llm_json_response(response_text, include_children) ==
    ParseOutcome(response_text, include_children).v

\* chat_with_llm returns the content of the reply, stripped
chat_with_llm(content) == Strip(content)

(***************************************************************************)
(* expand_node                                                             *)
(***************************************************************************)
Placeholder == "No valid substeps could be generated"

\* if "children" not in node: node["children"] = []   (on the node itself)
EnsureChildren(h, node) ==
    IF ~h[node].has THEN [h EXCEPT ![node].has = TRUE, ![node].children = <<>>]
    ELSE h

\* the substeps as JSON values: the parsed response, or the placeholder list
\* when the response is no list
SubstepValues(response_text) ==
    LET substeps == parse_llm_json_response(response_text, TRUE)
    IN  IF substeps.t = "list" THEN substeps.children
        ELSE <<JDict(Placeholder, NoUuid, TRUE, <<>>)>>

\* a clone that takes over the step alone
CloneNodeStepOnly(h, node) == JDict(h[node].step, NoUuid, h[node].has, h[node].children)

\* expanded_node = {**node}: a new dict with the keys and values of node
CloneNode(h, node) == h[node]

\* a merge that ignores the replace_existing flag
MergedChildrenReplacing(cell, substeps, replace_existing) == substeps

\* the children of the expanded node, by the replace_existing flag
MergedChildren(cell, substeps, replace_existing) ==
    IF replace_existing \/ ~cell.has \/ cell.children = <<>> THEN substeps
    ELSE cell.children \o substeps

\* the result is the new heap, the address of the expanded node and the
\* addresses of the generated substeps
expand_node(h, node, content, replace_existing) ==
    LET h1 == EnsureChildren(h, node)
        response_text == chat_with_llm(content)
        r == JsonLoadsAll(h1, SubstepValues(response_text), <<>>)
        expanded_node ==
            [CloneNode(h1, node) EXCEPT
                !.has = TRUE,
                !.children = MergedChildren(h1[node], r.addrs, replace_existing)]
    IN  [heap |-> Append(r.heap, expanded_node), ret |-> Len(r.heap) + 1,
         substeps |-> r.addrs]

(***************************************************************************)
(* update_tree_at_path                                                     *)
(***************************************************************************)
\* updated_tree = tree: no copy at all
NoCopy(h, tree) == [heap |-> h, addr |-> tree]

\* json.loads(json.dumps(tree)): new objects for the whole tree
DeepCopy(h, tree) == JsonLoads(h, JsonDumps(h, tree))

RECURSIVE Navigate(_, _, _, _)
\* the loop to the parent of the target, at step i of len(path) - 1
Navigate(h, current, path, i) ==
    IF i > Len(path) - 1 THEN [st |-> "at", node |-> current]
    ELSE LET index == path[i]
         IN  IF LacksChildren(h, current) \/ index >= Len(h[current].children)
             THEN [st |-> "invalid", node |-> None]
             ELSE IF ~PyInRange(h[current].children, index)
             THEN [st |-> "raised", node |-> None]     \* IndexError
             ELSE Navigate(h, PyGet(h[current].children, index), path, i + 1)

\* current["children"].append(new_node)
ReplaceChildAppending(h, current, last_index, new_node) ==
    [h EXCEPT ![current].children = Append(@, new_node)]

\* current["children"][last_index:] = [new_node]
ReplaceChildTruncating(h, current, last_index, new_node) ==
    [h EXCEPT ![current].children =
                  IF last_index >= 0 THEN SubSeq(@, 1, last_index) \o <<new_node>>
                  ELSE PySet(@, last_index, new_node)]

\* current["children"][last_index] = new_node
ReplaceChild(h, current, last_index, new_node) ==
    [h EXCEPT ![current].children = PySet(@, last_index, new_node)]

UpdateResult(h, ret, raised) == [heap |-> h, ret |-> ret, raised |-> raised]

\* the replacement below the root, for a path that is not empty; a copy that
\* is not returned is unreachable and leaves the heap
ReplaceBelowRoot(h, tree, path, new_node) ==
    LET c == DeepCopy(h, tree)
        nav == Navigate(c.heap, c.addr, path, 1)
        last_index == path[Len(path)]
    IN  IF nav.st = "invalid" THEN UpdateResult(h, tree, FALSE)
        ELSE IF nav.st = "raised" THEN UpdateResult(h, None, TRUE)
        ELSE IF LacksChildren(c.heap, nav.node)
                \/ last_index >= Len(c.heap[nav.node].children)
        THEN UpdateResult(h, tree, FALSE)
        ELSE IF ~PyInRange(c.heap[nav.node].children, last_index)
        THEN UpdateResult(h, None, TRUE)          \* IndexError
        ELSE UpdateResult(ReplaceChild(c.heap, nav.node, last_index, new_node),
                          c.addr, FALSE)

\* update_tree_at_path that hands back the tree for the root path
update_tree_at_path_keeping_root(h, tree, path, new_node) ==
    IF path = <<>> THEN UpdateResult(h, tree, FALSE)
    ELSE ReplaceBelowRoot(h, tree, path, new_node)

\* the result is the new heap and the tree returned
update_tree_at_path(h, tree, path, new_node) ==
    IF path = <<>> THEN UpdateResult(h, new_node, FALSE)
    ELSE ReplaceBelowRoot(h, tree, path, new_node)

(***************************************************************************)
(* The input trees: every tree of dicts of at most MaxNodes nodes, in      *)
(* which a node with children has the key and a leaf may lack it.          *)
(***************************************************************************)
RECURSIVE TreesOf(_)
RECURSIVE ForestsOf(_)
\* the sequences of trees that have n nodes together
ForestsOf(n) ==
    IF n = 0 THEN {<<>>}
    ELSE UNION {{<<t>> \o f : t \in TreesOf(k), f \in ForestsOf(n - k)} : k \in 1 .. n}

\* the trees of exactly n nodes
TreesOf(n) ==
    IF n = 1 THEN {JDict(l, NoUuid, has, <<>>) : l \in Labels, has \in BOOLEAN}
    ELSE {JDict(l, NoUuid, TRUE, f) : l \in Labels, f \in ForestsOf(n - 1)}

TreeInputs == UNION {TreesOf(n) : n \in 1 .. MaxNodes}

RECURSIVE PathsOf(_)
PathsOf(n) ==
    IF n = 0 THEN {<<>>}
    ELSE PathsOf(n - 1) \cup {Append(p, i) : p \in PathsOf(n - 1), i \in PathIndices}

Paths == PathsOf(MaxPathLen)

\* replies of the text generator (the content that chat_with_llm receives)
Contents ==
    { <<LBracket, LBrace, StepC, RBrace, Comma, LBrace, StepD, RBrace, RBracket>>,
      <<FenceJson, NL, LBracket, LBrace, StepC, Comma, ChildrenOpen, RBracket,
        RBrace, RBracket, NL, Fence>>,
      <<>>,
      <<WordDo, NL, Hash, WordGo, NL, NL, SP, WordGo, SP, NL>>,
      <<LBrace, StepC, RBrace>>,
      <<LBracket, LBrace, StepA, RBrace, RBracket>>,
      <<LBracket, StrC, RBracket>> }

\* the node a caller builds to put into a tree: {"step": "N"}
NewNode == JDict("N", NoUuid, FALSE, <<>>)

Addrs(h) == 1 .. Len(h)
Dicts(h) == {a \in Addrs(h) : h[a].t = "dict"}
\* the dicts no other object refers to: the trees the caller holds as a whole
Roots(h) ==
    {a \in Dicts(h) : \A b \in Addrs(h) : \A i \in 1 .. Len(h[b].children) :
                          h[b].children[i] # a}

\* the record of the last call: its name, its arguments and what it returned
Call(op, tree, path, label, new_node, replace, content, ret, retPath, retPathNone, raised, substeps) ==
    [op |-> op, tree |-> tree, path |-> path, label |-> label,
     new_node |-> new_node, replace |-> replace, content |-> content,
     ret |-> ret, retPath |-> retPath, retPathNone |-> retPathNone,
     raised |-> raised, substeps |-> substeps]

(***************************************************************************)
(* The state machine: the calls of main() of expand-node.py, in its order. *)
(* root is the tree that was loaded (main's tree), in which every node has *)
(* its uuid; target_node and node_path_in_tree are main's variables of     *)
(* these names; pre is the heap before the last call and last the record   *)
(* of the last call.  After the load, the node to expand is found (by      *)
(* path, by step text, or the root by default), expanded and put into the  *)
(* tree.  The searches take any path and any step text; the replacement is *)
(* also called on the loaded tree with any path and any node the caller    *)
(* holds.  The tree is taken as it was loaded, a leaf with or without its  *)
(* children key: normalize_tree_for_expansion is not part of this model,   *)
(* and each function is seen on every tree it provides for.                *)
(***************************************************************************)
Init ==
    \E t \in TreeInputs :
        LET r == JsonLoads(<<>>, t)
            loaded == [a \in 1 .. Len(r.heap) |-> [r.heap[a] EXCEPT !.uuid = <<a>>]]
        IN  /\ heap = JsonLoads(loaded, NewNode).heap
            /\ root = r.addr
            /\ target_node = None
            /\ node_path_in_tree = <<>>
            /\ pre = heap
            /\ last = Call("load", r.addr, <<>>, "", None, FALSE, <<>>, None, <<>>,
                           FALSE, FALSE, <<>>)
            /\ main = Idle /\ norm = Idle /\ emb = Idle /\ disk = Idle /\ gen = Idle
            /\ flow = Idle

\* target_node, node_path_in_tree = find_node_by_path(tree, node_path)
FindNodeByPath ==
    \E path \in Paths :
        LET r == find_node_by_path(heap, root, path)
        IN  /\ last.op = "load"
            /\ last' = Call("find_node_by_path", root, path, "", None, FALSE, <<>>,
                            r.node, r.path, r.pathIsNone, r.raised, <<>>)
            /\ target_node' = r.node
            /\ node_path_in_tree' = r.path
            /\ pre' = heap
            /\ UNCHANGED <<heap, root, main, norm, emb, disk, gen, flow>>

\* target_node, node_path_in_tree = find_node_by_step_text(tree, node_step);
\* a path of None is kept as the flag last.retPathNone
FindNodeByStepText ==
    \E step_text \in SearchLabels :
        LET r == find_node_by_step_text(heap, root, step_text)
        IN  /\ last.op = "load"
            /\ last' = Call("find_node_by_step_text", root, <<>>, step_text, None,
                            FALSE, <<>>, r.node, r.path, r.pathIsNone, r.raised, <<>>)
            /\ target_node' = r.node
            /\ node_path_in_tree' = r.path
            /\ pre' = heap
            /\ UNCHANGED <<heap, root, main, norm, emb, disk, gen, flow>>

\* no node specified: target_node, node_path_in_tree = tree, []
DefaultToRoot ==
    /\ last.op = "load"
    /\ last' = Call("default", root, <<>>, "", None, FALSE, <<>>, root, <<>>,
                    FALSE, FALSE, <<>>)
    /\ target_node' = root
    /\ node_path_in_tree' = <<>>
    /\ pre' = heap
    /\ UNCHANGED <<heap, root, main, norm, emb, disk, gen, flow>>

\* expanded_node = expand_node(target_node, ...), unless main has left with
\* "Could not find the specified node"
ExpandNode ==
    \E content \in Contents, replace_existing \in BOOLEAN :
        LET r == expand_node(heap, target_node, content, replace_existing)
        IN  /\ last.op \in {"find_node_by_path", "find_node_by_step_text", "default"}
            /\ ~last.raised
            /\ Truthy(heap, target_node)
            /\ heap' = r.heap
            /\ pre' = heap
            /\ last' = Call("expand_node", target_node, <<>>, "", None,
                            replace_existing, content, r.ret, <<>>, FALSE, FALSE,
                            r.substeps)
            /\ UNCHANGED <<root, target_node, node_path_in_tree, main, norm, emb, disk, gen, flow>>

\* the arguments of update_tree_at_path: after the expansion those of main,
\* on the loaded tree any path and any node the caller holds
UpdateArgs ==
    IF last.op = "expand_node" THEN {<<node_path_in_tree, last.ret>>}
    ELSE Paths \X Roots(heap)

\* updated_tree = update_tree_at_path(tree, path, new_node)
UpdateTreeAtPath ==
    \E args \in UpdateArgs :
        LET r == update_tree_at_path(heap, root, args[1], args[2])
        IN  /\ last.op \in {"load", "expand_node"}
            /\ heap' = r.heap
            /\ pre' = heap
            /\ last' = Call("update_tree_at_path", root, args[1], "", args[2], FALSE,
                            <<>>, r.ret, <<>>, FALSE, r.raised, <<>>)
            /\ UNCHANGED <<root, target_node, node_path_in_tree, main, norm, emb, disk, gen, flow>>

Next ==
    \/ FindNodeByPath
    \/ FindNodeByStepText
    \/ DefaultToRoot
    \/ ExpandNode
    \/ UpdateTreeAtPath

Spec == Init /\ [][Next]_vars

TypeOK ==
    /\ \A a \in Addrs(heap) :
          /\ heap[a].t \in {"dict", "list", "str"}
          /\ \A i \in 1 .. Len(heap[a].children) : heap[a].children[i] \in Addrs(heap)
    /\ root \in Dicts(heap)
    /\ target_node \in Addrs(heap) \cup {None}

(***************************************************************************)
(* What the claims speak of.                                               *)
(***************************************************************************)
IsUpdate == last.op = "update_tree_at_path"
IsFindByPath == last.op = "find_node_by_path"
IsFindByStep == last.op = "find_node_by_step_text"
IsExpand == last.op = "expand_node"

\* a path of valid zero-based positions: every node on the way is a dict with
\* a children list and every index is one of 0 .. len(children) - 1
RECURSIVE ValidPath(_, _, _)
ValidPath(h, a, path) ==
    IF path = <<>> THEN TRUE
    ELSE /\ h[a].t = "dict"
         /\ h[a].has
         /\ Head(path) \in 0 .. Len(h[a].children) - 1
         /\ ValidPath(h, h[a].children[Head(path) + 1], Tail(path))

\* the node at a valid path
RECURSIVE NodeAt(_, _, _)
NodeAt(h, a, path) ==
    IF path = <<>> THEN a ELSE NodeAt(h, h[a].children[Head(path) + 1], Tail(path))

\* the nodes of a tree in pre-order, each with its index path
RECURSIVE PreOrder(_, _, _)
RECURSIVE PreOrderFrom(_, _, _, _)
PreOrderFrom(h, a, path, i) ==
    IF i > Len(h[a].children) THEN <<>>
    ELSE PreOrder(h, h[a].children[i], Append(path, i - 1))
             \o PreOrderFrom(h, a, path, i + 1)

PreOrder(h, a, path) == <<[node |-> a, path |-> path]>> \o PreOrderFrom(h, a, path, 1)

\* the nodes of the tree whose step is the label, in pre-order
Matches(h, a, label) ==
    SelectSeq(PreOrder(h, a, <<>>),
              LAMBDA e : h[e.node].t = "dict" /\ h[e.node].step = label)

\* the steps of the children of a node
ChildSteps(h, a) == [i \in 1 .. Len(h[a].children) |-> h[h[a].children[i]].step]

\* the values of a sequence of objects
Values(h, addrs) == [i \in 1 .. Len(addrs) |-> JsonDumps(h, addrs[i])]

(***************************************************************************)
(* C1: a replacement is observable at the same path.  When                 *)
(* update_tree_at_path(T, p, N) has been called with a path p that is not  *)
(* empty and that find_node_by_path resolves in T, then find_node_by_path  *)
(* on the returned tree with p returns N, unchanged, and the realized path *)
(* p.                                                                      *)
(***************************************************************************)
C1_ReplacementObservable ==
    (/\ IsUpdate
     /\ last.path # <<>>
     /\ find_node_by_path(pre, last.tree, last.path).node # None)
    => /\ ~last.raised
       /\ last.ret # None
       /\ LET f == find_node_by_path(heap, last.ret, last.path)
          IN  /\ ~f.raised
              /\ f.node = last.new_node
              /\ f.path = last.path
              /\ JsonDumps(heap, f.node) = JsonDumps(pre, last.new_node)

\* a node two levels below the root has been replaced by another node
C1_Witness ==
    /\ IsUpdate
    /\ Len(last.path) = 2
    /\ find_node_by_path(pre, last.tree, last.path).node
           \notin {None, last.new_node}
    /\ ~last.raised
    /\ find_node_by_path(heap, last.ret, last.path).node = last.new_node

(***************************************************************************)
(* C2: replacing at the root path is total substitution.                   *)
(* update_tree_at_path(T, [], N) returns the object N itself, as it was    *)
(* given, whatever T is.                                                   *)
(***************************************************************************)
C2_RootReplacement ==
    (IsUpdate /\ last.path = <<>>)
    => /\ ~last.raised
       /\ last.ret = last.new_node
       /\ JsonDumps(heap, last.ret) = JsonDumps(pre, last.new_node)
       /\ heap = pre

\* the root of a tree has been replaced by a node that is not the tree
C2_Witness ==
    /\ IsUpdate
    /\ last.path = <<>>
    /\ last.new_node # last.tree
    /\ JsonDumps(heap, last.ret) # JsonDumps(pre, last.tree)

(***************************************************************************)
(* C3: an invalid path is a silent no-op.  When update_tree_at_path(T, p,  *)
(* N) has been called with a path p that is not a path of valid zero-based *)
(* positions of T (an index too large or negative, or a node on the way    *)
(* without children), it has raised no error and has returned a tree equal *)
(* to T.                                                                   *)
(***************************************************************************)
C3_InvalidPathNoOp ==
    (IsUpdate /\ ~ValidPath(pre, last.tree, last.path))
    => /\ ~last.raised
       /\ last.ret # None
       /\ JsonDumps(heap, last.ret) = JsonDumps(pre, last.tree)

(***************************************************************************)
(* C4: update_tree_at_path does not modify the tree it is given.  After    *)
(* any call every object that was reachable from T is what it was before   *)
(* the call, so T still is the tree it was.                                *)
(***************************************************************************)
C4_InputTreeUnmodified ==
    IsUpdate
    => /\ \A a \in Reach(pre, last.tree) : a \in Addrs(heap) /\ heap[a] = pre[a]
       /\ JsonDumps(heap, last.tree) = JsonDumps(pre, last.tree)

\* a replacement below the root has produced a tree that differs from T
C4_Witness ==
    /\ IsUpdate
    /\ last.path # <<>>
    /\ ~last.raised
    /\ last.ret # last.tree
    /\ JsonDumps(heap, last.ret) # JsonDumps(pre, last.tree)

(***************************************************************************)
(* C5: find_node_by_path reports not-found whenever the path is not a path *)
(* of valid zero-based positions of T, and when it returns a node, this is *)
(* the node at the requested path and the realized path is the requested   *)
(* path.                                                                   *)
(***************************************************************************)
C5_FindByPathExact ==
    IsFindByPath
    => /\ ~ValidPath(pre, last.tree, last.path) => (last.ret = None /\ ~last.raised)
       /\ last.ret # None
             => /\ ValidPath(pre, last.tree, last.path)
                /\ last.ret = NodeAt(pre, last.tree, last.path)
                /\ last.retPath = last.path

(***************************************************************************)
(* C6: find_node_by_step_text returns the pre-order-first match.  When     *)
(* some node of T has the step searched for, the call returns the first    *)
(* such node in pre-order (parent before children, children left to right) *)
(* and its index path from the root, also when several nodes have that     *)
(* step; the tree is not changed, so a repeated call returns the same.     *)
(***************************************************************************)
C6_PreOrderFirstMatch ==
    (IsFindByStep /\ Matches(pre, last.tree, last.label) # <<>>)
    => LET first == Head(Matches(pre, last.tree, last.label))
       IN  /\ ~last.raised
           /\ last.ret = first.node
           /\ ~last.retPathNone
           /\ last.retPath = first.path
           /\ heap = pre
           /\ find_node_by_step_text(heap, last.tree, last.label).node = last.ret

\* the step searched for is on two nodes or more, none of them the root
C6_Witness ==
    /\ IsFindByStep
    /\ Len(Matches(pre, last.tree, last.label)) >= 2
    /\ last.ret # None
    /\ last.retPath # <<>>

(***************************************************************************)
(* C7: when no node of T has the step searched for,                        *)
(* find_node_by_step_text returns the pair (not found, empty path): no     *)
(* node, and the empty sequence as the path, and raises no error.          *)
(***************************************************************************)
C7_NotFoundEmptyPath ==
    (IsFindByStep /\ Matches(pre, last.tree, last.label) = <<>>)
    => /\ ~last.raised
       /\ last.ret = None
       /\ ~last.retPathNone
       /\ last.retPath = <<>>

(***************************************************************************)
(* C8: the merge rule of expand_node.  If replace_existing is true, or the *)
(* node had no children key, or its children were empty, the children of   *)
(* the result are the generated substeps; otherwise they are the children  *)
(* the node had, followed by the generated substeps, in order, nothing     *)
(* dropped, also when a substep repeats a child.  Children with the steps  *)
(* A, B and generated substeps C, D give A, B, C, D without                *)
(* replace_existing and C, D with it.                                      *)
(***************************************************************************)
GeneratedCD ==
    <<LBracket, LBrace, StepC, RBrace, Comma, LBrace, StepD, RBrace, RBracket>>

C8_MergeRule ==
    IsExpand
    => LET node == pre[last.tree]
           generated == SubstepValues(chat_with_llm(last.content))
           children == Values(heap, heap[last.ret].children)
       IN  /\ heap[last.ret].has
           /\ Values(heap, last.substeps) = generated
           /\ IF last.replace \/ ~node.has \/ node.children = <<>>
              THEN children = generated
              ELSE children = Values(pre, node.children) \o generated
           /\ (last.content = GeneratedCD /\ ChildSteps(pre, last.tree) = <<"A", "B">>)
                 => ChildSteps(heap, last.ret)
                        = IF last.replace THEN <<"C", "D">> ELSE <<"A", "B", "C", "D">>

\* children A, B and generated substeps C, D, merged without replace_existing
C8_Witness ==
    /\ IsExpand
    /\ ~last.replace
    /\ last.content = GeneratedCD
    /\ ChildSteps(pre, last.tree) = <<"A", "B">>
    /\ ChildSteps(heap, last.ret) = <<"A", "B", "C", "D">>

(***************************************************************************)
(* C9: the node returned by expand_node has the step and the uuid of the   *)
(* node passed in, for every reply and both merge policies; nothing but    *)
(* the children differs between the two.                                   *)
(***************************************************************************)
C9_StepAndUuidKept ==
    IsExpand
    => /\ heap[last.ret].t = "dict"
       /\ heap[last.ret].step = pre[last.tree].step
       /\ heap[last.ret].uuid = pre[last.tree].uuid

\* a node with a uuid has been expanded and the result has other children
C9_Witness ==
    /\ IsExpand
    /\ pre[last.tree].uuid # NoUuid
    /\ heap[last.ret].uuid # NoUuid
    /\ heap[last.ret].children # pre[last.tree].children

(***************************************************************************)
(* C10: expand_node does not mutate the node it is given.  After the call  *)
(* the node is what it was before: it has a children key if and only if it *)
(* had one, with the same children; the result is another object.          *)
(***************************************************************************)
C10_InputNodeUnmodified ==
    IsExpand
    => /\ last.ret # last.tree
       /\ heap[last.tree] = pre[last.tree]
       /\ \A a \in Reach(pre, last.tree) : heap[a] = pre[a]

(***************************************************************************)
(* The response parser on its own: parse_llm_json_response of utils.py and *)
(* the normalization of the substeps in expand_node, on every reply of a   *)
(* bounded family.  norm.source tells how the reply was written: any short *)
(* text, a JSON array of step objects in some layout, or lines of prose.   *)
(***************************************************************************)
\* longest reply written token by token
MaxTextLen == 3
\* most step objects of a JSON array reply
MaxItems == 2
\* most lines of a prose reply
MaxLines == 3

SeqsUpTo(S, n) == UNION {[1 .. k -> S] : k \in 0 .. n}

\* the token of a step member
StepToken(step) == IF step = "A" THEN StepA ELSE IF step = "C" THEN StepC ELSE StepD

RECURSIVE RenderValue(_, _)
RECURSIVE RenderItems(_, _)
\* the items of a list, sep after each comma
RenderItems(items, sep) ==
    IF items = <<>> THEN <<>>
    ELSE IF Len(items) = 1 THEN RenderValue(items[1], sep)
    ELSE RenderValue(items[1], sep) \o <<Comma>> \o sep \o RenderItems(Tail(items), sep)

\* the text of a JSON value as the generator writes it
RenderValue(v, sep) ==
    IF v.t = "str" THEN <<StrC>>
    ELSE IF v.t = "list"
    THEN <<LBracket>> \o sep \o RenderItems(v.children, sep) \o sep \o <<RBracket>>
    ELSE <<LBrace>>
         \o (IF v.step # NoStep THEN <<StepToken(v.step)>> ELSE <<>>)
         \o (IF v.step # NoStep /\ v.has THEN <<Comma>> \o sep ELSE <<>>)
         \o (IF v.has THEN <<ChildrenOpen>> \o RenderItems(v.children, sep) \o <<RBracket>>
             ELSE <<>>)
         \o <<RBrace>>

\* what a reply puts around its body: nothing, a fence with or without the
\* json tag, or white space
Wrap(w, body) ==
    IF w = "json fence" THEN <<FenceJson, NL>> \o body \o <<NL, Fence>>
    ELSE IF w = "fence" THEN <<Fence, NL>> \o body \o <<NL, Fence, NL>>
    ELSE IF w = "space" THEN <<SP, NL>> \o body \o <<SP>>
    ELSE body

RECURSIVE JoinLines(_)
\* "\n".join(lines)
JoinLines(lines) ==
    IF lines = <<>> THEN <<>>
    ELSE IF Len(lines) = 1 THEN lines[1]
    ELSE lines[1] \o <<NL>> \o JoinLines(Tail(lines))

Source(kind, text, value, lines, wrap, sep) ==
    [kind |-> kind, text |-> text, value |-> value, lines |-> lines,
     wrap |-> wrap, sep |-> sep]

\* the reply a source stands for
TextOf(src) ==
    IF src.kind = "text" THEN src.text
    ELSE IF src.kind = "json" THEN Wrap(src.wrap, RenderValue(src.value, src.sep))
    ELSE Wrap(src.wrap, JoinLines(src.lines))

\* the programs of the other variables are not started
TreeIdle ==
    /\ heap = <<>> /\ root = None /\ target_node = None
    /\ node_path_in_tree = <<>> /\ pre = <<>> /\ last = Idle /\ main = Idle

\* a reply has arrived.  The replies: every text of up to MaxTextLen tokens;
\* every array of up to MaxItems step objects (with and without a children
\* list), compact or with a line break and a blank after each bracket and
\* comma, in every wrap; up to MaxLines lines of prose (blank, comment, text
\* with and without blanks around it, text that holds a "#" further on, an
\* opening bracket), in every wrap
InitParse ==
    LET TextAlphabet ==
            {FenceJson, Fence, NL, SP, Hash, LBracket, RBracket, LBrace, RBrace, Comma,
             StepC, ChildrenOpen, StrC, WordDo}
        StepObjects ==
            { JDict("C", NoUuid, FALSE, <<>>), JDict("D", NoUuid, FALSE, <<>>),
              JDict("C", NoUuid, TRUE, <<>>),
              JDict("D", NoUuid, TRUE, <<JDict("C", NoUuid, FALSE, <<>>)>>) }
        StepArrays == {JList(items) : items \in SeqsUpTo(StepObjects, MaxItems)}
        Wraps == {"bare", "json fence", "fence", "space"}
        Seps == {<<>>, <<NL, SP>>}
        LineKinds ==
            { <<>>, <<SP>>, <<Hash, WordDo>>, <<SP, Hash>>, <<WordDo>>, <<SP, WordGo, SP>>,
              <<WordDo, SP, Hash>>, <<LBracket>> }
        Sources ==
            {Source("text", t, JList(<<>>), <<>>, "bare", <<>>) :
                t \in SeqsUpTo(TextAlphabet, MaxTextLen)}
            \cup {Source("json", <<>>, x[1], <<>>, x[2], x[3]) :
                     x \in StepArrays \X Wraps \X Seps}
            \cup {Source("lines", <<>>, JList(<<>>), x[1], x[2], <<>>) :
                     x \in SeqsUpTo(LineKinds, MaxLines) \X Wraps}
    IN  /\ \E src \in Sources :
              norm = [op |-> "reply", source |-> src, content |-> TextOf(src),
                      include_children |-> FALSE, raised |-> FALSE,
                      ret |-> JList(<<>>), substeps |-> <<>>]
        /\ TreeIdle /\ emb = Idle /\ disk = Idle /\ gen = Idle /\ flow = Idle

\* a caller hands the reply to parse_llm_json_response, with either flag
ParseLlmJsonResponse ==
    \E include_children \in BOOLEAN :
        LET r == ParseOutcome(norm.content, include_children)
        IN  /\ norm.op = "reply"
            /\ norm' = [norm EXCEPT !.op = "parse_llm_json_response",
                                    !.include_children = include_children,
                                    !.raised = r.raised, !.ret = r.v]
            /\ UNCHANGED <<treeVars, emb, disk, gen, flow>>

\* expand_node takes the reply from chat_with_llm, parses it with
\* include_children=True and replaces what is no list by the placeholder list
NormalizeSubsteps ==
    LET response_text == chat_with_llm(norm.content)
        r == ParseOutcome(response_text, TRUE)
    IN  /\ norm.op = "reply"
        /\ norm' = [norm EXCEPT !.op = "substeps", !.include_children = TRUE,
                                !.raised = r.raised, !.ret = r.v,
                                !.substeps = IF r.raised THEN <<>>
                                             ELSE SubstepValues(response_text)]
        /\ UNCHANGED <<treeVars, emb, disk, gen, flow>>

NextParse ==
    \/ ParseLlmJsonResponse
    \/ NormalizeSubsteps

SpecParse == InitParse /\ [][NextParse]_vars

IsParsed == norm.op = "parse_llm_json_response"
IsSubsteps == norm.op = "substeps"
\* the reply is malformed: its cleaned text is no JSON
Malformed == ~json_loads(clean_llm_json_response(norm.content)).ok

IsStepRecord(v) == v.t = "dict" /\ v.step # NoStep

\* C12: the substeps handed to the caller are a non-empty sequence of step
\* records, and a reply that cannot be parsed (the empty text, prose) gives
\* exactly the one placeholder record.
C12_NonEmptyStepRecords ==
    IsSubsteps =>
        /\ norm.substeps # <<>>
        /\ \A i \in 1 .. Len(norm.substeps) : IsStepRecord(norm.substeps[i])
        /\ Malformed => norm.substeps = <<JDict(Placeholder, NoUuid, TRUE, <<>>)>>

\* C13: a reply that is a JSON array of step objects, bare or inside code
\* fences or white space, gives exactly the records of the array in their
\* order: no placeholder and no splitting into lines.
C13_StrictParseFirst ==
    ((IsParsed \/ IsSubsteps) /\ norm.source.kind = "json") =>
        /\ norm.ret = norm.source.value
        /\ IsSubsteps => norm.substeps = norm.source.value.children

\* a fenced array of two step objects, laid out on several lines
C13_Witness ==
    /\ IsSubsteps
    /\ norm.source.kind = "json"
    /\ norm.source.wrap = "json fence"
    /\ norm.source.sep = <<NL, SP>>
    /\ norm.substeps = <<JDict("D", NoUuid, TRUE, <<JDict("C", NoUuid, FALSE, <<>>)>>),
                         JDict("C", NoUuid, FALSE, <<>>)>>

\* the trimmed lines of a prose reply that are neither blank nor a comment
KeptLines(lines) ==
    SelectSeq([i \in 1 .. Len(lines) |-> Strip(lines[i])],
              LAMBDA s : s # <<>> /\ s[1] # Hash)

\* C14: when the strict parse fails, the reply is split on line breaks, the
\* blank lines and the lines whose trimmed text begins with "#" are left
\* out, and each line kept becomes a leaf record in the order of the lines:
\* with an empty children list when include_children is true, without the
\* children field when it is false.
C14_LineFallback ==
    (IsParsed /\ norm.source.kind = "lines" /\ Malformed) =>
        /\ norm.ret.t = "list"
        /\ Len(norm.ret.children) = Len(KeptLines(norm.source.lines))
        /\ \A i \in 1 .. Len(norm.ret.children) :
              norm.ret.children[i] =
                  JDict(Spell(KeptLines(norm.source.lines)[i]), NoUuid,
                        norm.include_children, <<>>)

\* text, a comment and text inside blanks, parsed without children fields
C14_Witness ==
    /\ IsParsed
    /\ norm.source.kind = "lines"
    /\ norm.source.lines = << <<WordDo>>, <<Hash, WordDo>>, <<SP, WordGo, SP>> >>
    /\ ~norm.include_children
    /\ norm.ret = JList(<<JDict("Do", NoUuid, FALSE, <<>>), JDict("Go", NoUuid, FALSE, <<>>)>>)

(***************************************************************************)
(* parse_embedded_json of utils.py.  Its nodes carry a title next to the   *)
(* step, and the step is a text that json.loads reads, so a node is kept   *)
(* here as a value [t, step, title, has, children] whose step and title    *)
(* are token texts.  emb holds the node handed in and what the call ends   *)
(* with.                                                                   *)
(***************************************************************************)
\* largest number of nodes of a tree handed to parse_embedded_json
MaxEmbNodes == 2

\* a key that the dict does not have
NoText == <<"<no key>">>

ENode(step, title, has, children) ==
    [t |-> "dict", step |-> step, title |-> title, has |-> has, children |-> children]

\* the text of a string read from JSON: the characters of the string
TextOfString(str) == IF str = "['C']" THEN <<LBracket, StrC, RBracket>> ELSE <<str>>

\* a token of Python's quoting in the text str() gives for a list or a dict
PyQuoted == "<single-quoted>"

RECURSIVE PyRepr(_)
RECURSIVE PyReprItems(_)
PyReprItems(items) ==
    IF items = <<>> THEN <<>>
    ELSE IF Len(items) = 1 THEN PyRepr(items[1])
    ELSE PyRepr(items[1]) \o <<Comma, SP>> \o PyReprItems(Tail(items))

\* repr(value): brackets and braces as in JSON, strings and keys in Python's
\* single quotes
PyRepr(v) ==
    IF v.t = "str" THEN <<PyQuoted>>
    ELSE IF v.t = "list" THEN <<LBracket>> \o PyReprItems(v.children) \o <<RBracket>>
    ELSE IF v.step = NoStep /\ ~v.has THEN <<LBrace, RBrace>>
    ELSE <<LBrace, PyQuoted, RBrace>>

\* str(item): the string itself, or the repr of a list
PyStr(v) == IF v.t = "str" THEN TextOfString(v.step) ELSE PyRepr(v)

RECURSIVE FromJson(_)
\* a value json.loads has read, as it lies under a node: a dict has the keys
\* it was written with and no title
FromJson(v) ==
    IF v.t = "dict"
    THEN ENode(IF v.step = NoStep THEN NoText ELSE TextOfString(v.step), NoText, v.has,
               [i \in 1 .. Len(v.children) |-> FromJson(v.children[i])])
    ELSE [t |-> v.t, step |-> PyStr(v), title |-> NoText, has |-> FALSE, children |-> <<>>]

\* new_children of a parsed list: a dict as it is, anything else as a leaf
\* of its text
NewChild(item) ==
    IF item.t = "dict" THEN FromJson(item) ELSE ENode(PyStr(item), NoText, TRUE, <<>>)

\* node.get("title") is truthy
HasTitle(node) == node.title # NoText /\ node.title # <<>>

\* step_value.strip().startswith('[') or ...startswith('{')
LooksEmbedded(node) ==
    /\ node.step # NoText
    /\ Strip(node.step) # <<>>
    /\ Strip(node.step)[1] \in {LBracket, LBrace}

\* a title that is always set to the step
TitleOverwritten(node) == node.step

\* if not node.get("title"): node["title"] = step_value
TitleAfter(node) == IF HasTitle(node) THEN node.title ELSE node.step

\* lines 22-48 with the title set as soon as the step looks like JSON,
\* before it is parsed
ReinterpretTitleFirst(node) ==
    LET parsed == json_loads(node.step)
    IN  IF ~LooksEmbedded(node) THEN node
        ELSE IF ~parsed.ok THEN [node EXCEPT !.title = TitleAfter(node)]
        ELSE IF parsed.v.t = "list"
        THEN [node EXCEPT !.has = TRUE,
                          !.children = [i \in 1 .. Len(parsed.v.children) |->
                                           NewChild(parsed.v.children[i])],
                          !.title = TitleAfter(node)]
        ELSE [node EXCEPT !.has = TRUE, !.children = <<FromJson(parsed.v)>>,
                          !.title = TitleAfter(node)]

\* the node after lines 22-48: the children taken from its step
Reinterpret(node) ==
    LET parsed == json_loads(node.step)
    IN  IF ~LooksEmbedded(node) \/ ~parsed.ok THEN node
        ELSE IF parsed.v.t = "list"
        THEN [node EXCEPT !.has = TRUE,
                          !.children = [i \in 1 .. Len(parsed.v.children) |->
                                           NewChild(parsed.v.children[i])],
                          !.title = TitleAfter(node)]
        ELSE IF parsed.v.t = "dict"
        THEN [node EXCEPT !.has = TRUE, !.children = <<FromJson(parsed.v)>>,
                          !.title = TitleAfter(node)]
        ELSE node

RECURSIVE parse_embedded_json(_)
\* the result is the node returned, or raised when a child that is no dict
\* is reached (child.get fails with AttributeError, which nothing catches)
parse_embedded_json(node) ==
    IF node.t # "dict" THEN [raised |-> TRUE, node |-> node]
    ELSE LET n1 == Reinterpret(node)
             rs == [i \in 1 .. Len(n1.children) |-> parse_embedded_json(n1.children[i])]
         IN  [raised |-> \E i \in 1 .. Len(rs) : rs[i].raised,
              node |-> [n1 EXCEPT !.children = [i \in 1 .. Len(rs) |-> rs[i].node]]]

RECURSIVE EmbTreesOf(_)
RECURSIVE EmbForestsOf(_)
\* the sequences of trees that have n nodes together
EmbForestsOf(n) ==
    IF n = 0 THEN {<<>>}
    ELSE UNION {{<<t>> \o f : t \in EmbTreesOf(k), f \in EmbForestsOf(n - k)} : k \in 1 .. n}

\* the trees of exactly n nodes; a leaf has no children key.  The step
\* texts: plain, a list of a string, a list of two step objects, a dict, a
\* list behind a blank whose step object holds a list in turn, a text that
\* only begins like JSON, a list whose step object has a string among its
\* children, and no step at all.  The titles: none, empty, some.
EmbTreesOf(n) ==
    LET EmbSteps ==
            { <<"C">>,
              <<LBracket, StrC, RBracket>>,
              <<LBracket, LBrace, StepC, RBrace, Comma, LBrace, StepD, RBrace, RBracket>>,
              <<LBrace, StepD, RBrace>>,
              <<SP, LBracket, LBrace, StepNested, RBrace, RBracket>>,
              <<LBracket, LBrace>>,
              <<LBracket, LBrace, StepC, Comma, ChildrenOpen, StrC, RBracket, RBrace, RBracket>>,
              NoText }
        EmbTitles == {NoText, <<>>, <<"T">>}
    IN  IF n = 1 THEN {ENode(x[1], x[2], FALSE, <<>>) : x \in EmbSteps \X EmbTitles}
        ELSE {ENode(x[1], x[2], TRUE, x[3]) :
                 x \in EmbSteps \X EmbTitles \X EmbForestsOf(n - 1)}

InitEmbedded ==
    /\ \E node \in UNION {EmbTreesOf(n) : n \in 1 .. MaxEmbNodes} :
          emb = [op |-> "node", node |-> node, raised |-> FALSE, ret |-> node]
    /\ TreeIdle /\ norm = Idle /\ disk = Idle /\ gen = Idle /\ flow = Idle

\* node = parse_embedded_json(node)
ParseEmbeddedJson ==
    LET r == parse_embedded_json(emb.node)
    IN  /\ emb.op = "node"
        /\ emb' = [emb EXCEPT !.op = "parse_embedded_json", !.raised = r.raised,
                              !.ret = r.node]
        /\ UNCHANGED <<treeVars, norm, disk, gen, flow>>

SpecEmbedded == InitEmbedded /\ [][ParseEmbeddedJson]_vars

IsEmbedded == emb.op = "parse_embedded_json" /\ ~emb.raised

\* the items of the list a step text holds, or no list
EmbeddedItems(node) ==
    LET parsed == json_loads(node.step)
    IN  IF LooksEmbedded(node) /\ parsed.ok /\ parsed.v.t = "list"
        THEN [list |-> TRUE, items |-> parsed.v.children]
        ELSE [list |-> FALSE, items |-> <<>>]

\* what is said of the label of a record whose step held a list: claimed, it
\* is cleared or kept under title; in the code, it stays in step, and goes
\* under title unless the record has a title that is not empty
LabelRule(claimed, in, out) ==
    IF claimed THEN out.step \in {<<>>, NoText} \/ out.title = in.step
    ELSE /\ out.step = in.step
         /\ out.title = IF in.title \in {NoText, <<>>} THEN in.step ELSE in.title

RECURSIVE Reinterpreted(_, _, _)
\* out is in with every record re-interpreted, at every depth: the items of
\* an embedded list have become the children and are re-interpreted in turn
Reinterpreted(claimed, in, out) ==
    LET e == EmbeddedItems(in)
        rest == Reinterpret(in).children
    IN  IF e.list
        THEN /\ LabelRule(claimed, in, out)
             /\ out.has
             /\ Len(out.children) = Len(e.items)
             /\ \A i \in 1 .. Len(out.children) :
                   Reinterpreted(claimed, NewChild(e.items[i]), out.children[i])
        ELSE /\ Len(out.children) = Len(rest)
             /\ \A i \in 1 .. Len(out.children) :
                   Reinterpreted(claimed, rest[i], out.children[i])

MaxLabelLen == 3
\* largest number of nodes of a tree that is saved
MaxFsNodes == 3

\* sanitized[:40]
NameLimit == 40

\* characters: upper case and lower case letters, a digit, the underscore
\* (all matched by \w), white space, the hyphen, punctuation
UpperChars == {"M", "K", "D"}
LowerWordChars == {"a", "d", "e", "g", "h", "i", "k", "m", "n", "o", "u", "x", "1", "2", "_"}
SepChars == {" ", "-"}

\* str.lower() of one character
LowerChar(c) == IF c = "M" THEN "m" ELSE IF c = "K" THEN "k" ELSE IF c = "D" THEN "d" ELSE c

RECURSIVE CollapseSeps(_, _)
\* re.sub(r'[\s-]+', '_', ...): inRun tells that the run was replaced already
CollapseSeps(cs, inRun) ==
    IF cs = <<>> THEN <<>>
    ELSE IF Head(cs) \in SepChars
    THEN (IF inRun THEN <<>> ELSE <<"_">>) \o CollapseSeps(Tail(cs), TRUE)
    ELSE <<Head(cs)>> \o CollapseSeps(Tail(cs), FALSE)

\* a name that is not cut to its first 40 characters
sanitize_filename_uncut(name) ==
    LET lowered == [i \in 1 .. Len(name) |-> LowerChar(name[i])]
        kept == SelectSeq(lowered, LAMBDA c : c \in LowerWordChars \cup UpperChars \cup SepChars)
    IN  CollapseSeps(kept, FALSE)

\* lower(), re.sub(r'[^\w\s-]', ''), re.sub(r'[\s-]+', '_'), [:40]
sanitize_filename(name) ==
    LET lowered == [i \in 1 .. Len(name) |-> LowerChar(name[i])]
        kept == SelectSeq(lowered, LAMBDA c : c \in LowerWordChars \cup UpperChars \cup SepChars)
        sanitized == CollapseSeps(kept, FALSE)
    IN  SubSeq(sanitized, 1, IF Len(sanitized) < NameLimit THEN Len(sanitized) ELSE NameLimit)

\* child_name: the sanitized step, or "step" when that is empty
ChildName(step) ==
    IF sanitize_filename(step) = <<>> THEN <<"s", "t", "e", "p">> ELSE sanitize_filename(step)

FNode(step, uuid, children) == [step |-> step, uuid |-> uuid, children |-> children]

RECURSIVE JoinGroups(_)
\* str(uuid): the groups joined with "-"
JoinGroups(u) ==
    IF Len(u) = 1 THEN <<u[1]>> ELSE <<u[1], "-">> \o JoinGroups(Tail(u))

\* child["uuid"].split('-')[0]
ShortUuid(u) == <<u[1]>>

\* f"{child_name}_{short_uuid}"
ShortName(step, uuid) == ChildName(step) \o <<"_">> \o ShortUuid(uuid)

\* f"{child_name}_{child['uuid']}"
FullName(step, uuid) == ChildName(step) \o <<"_">> \o JoinGroups(uuid)

\* a name that never falls back to the full uuid
dir_name_without_fallback(dirs, base_path, step, uuid) == ShortName(step, uuid)

\* dir_name of a child: with the short uuid, or with the full one when a
\* directory of that name exists in base_path
dir_name(dirs, base_path, step, uuid) ==
    IF Append(base_path, ShortName(step, uuid)) \in DOMAIN dirs
    THEN FullName(step, uuid)
    ELSE ShortName(step, uuid)

\* the state a save runs through: the directories, the uuids uuid4() will
\* give next, and the record of every directory written
FsState(dirs, supply, log) == [dirs |-> dirs, supply |-> supply, log |-> log]

RECURSIVE SaveTree(_, _, _, _)
RECURSIVE SaveChildren(_, _, _, _, _)
\* the loop over tree.get("children", []) from child i on; done holds the
\* children that were saved, each with its uuid
SaveChildren(st, children, i, base_path, done) ==
    IF i > Len(children) THEN [st |-> st, children |-> done]
    ELSE LET child == children[i]
             fresh == child.uuid = NoUuid
             uuid == IF fresh THEN Head(st.supply) ELSE child.uuid
             st1 == IF fresh THEN [st EXCEPT !.supply = Tail(@)] ELSE st
             short_path == Append(base_path, ShortName(child.step, uuid))
             child_path == Append(base_path, dir_name(st1.dirs, base_path, child.step, uuid))
             r == SaveTree(st1, [child EXCEPT !.uuid = uuid], child_path,
                           short_path \in DOMAIN st1.dirs)
         IN  SaveChildren(r.st, children, i + 1, base_path, Append(done, r.tree))

\* save_tree_to_filesystem(tree, base_path); collided tells that the caller
\* found the name with the short uuid taken.  The result is the state after
\* the call and the tree with the uuids it was given.
SaveTree(st, tree, base_path, collided) ==
    LET fresh == tree.uuid = NoUuid
        uuid == IF fresh THEN Head(st.supply) ELSE tree.uuid
        node_details == [step |-> tree.step, uuid |-> uuid]
        entry == [path |-> base_path, step |-> tree.step, uuid |-> uuid,
                  collided |-> collided, overwrote |-> base_path \in DOMAIN st.dirs]
        st1 == FsState((base_path :> node_details) @@ st.dirs,
                       IF fresh THEN Tail(st.supply) ELSE st.supply,
                       Append(st.log, entry))
        r == SaveChildren(st1, tree.children, 1, base_path, <<>>)
    IN  [st |-> r.st, tree |-> FNode(tree.step, uuid, r.children)]

\* the uuids uuid4() gives: two groups, so that two of them can share the
\* first group
UuidPool == {<<a, b>> : a \in {"1", "2"}, b \in {"1", "2"}}
\* the uuid generate_task_tree gave the root
RootUuid == <<"0", "0">>

\* sequences of n different uuids
Supplies(n) == {f \in [1 .. n -> UuidPool] : \A i \in 1 .. n : \A j \in 1 .. n : f[i] = f[j] => i = j}

\* "Mix & Knead Dough!!"
MixKnead ==
    <<"M", "i", "x", " ", "&", " ", "K", "n", "e", "a", "d", " ", "D", "o", "u", "g", "h", "!", "!">>

RECURSIVE FsTreesOf(_)
RECURSIVE FsForestsOf(_)
FsForestsOf(n) ==
    IF n = 0 THEN {<<>>}
    ELSE UNION {{<<t>> \o f : t \in FsTreesOf(k), f \in FsForestsOf(n - k)} : k \in 1 .. n}

\* the trees of exactly n nodes as generate_task_tree leaves them: no node
\* below the root has a uuid
FsTreesOf(n) ==
    {FNode(l, NoUuid, f) : l \in {<<>>, <<"m">>, <<"M">>}, f \in FsForestsOf(n - 1)}

RECURSIVE FsSize(_)
RECURSIVE FsSizeAll(_)
FsSizeAll(ts) == IF ts = <<>> THEN 0 ELSE FsSize(Head(ts)) + FsSizeAll(Tail(ts))
\* the number of nodes of a tree
FsSize(t) == 1 + FsSizeAll(t.children)

\* the directories right below a directory
Subdirs(dirs, path) ==
    {p \in DOMAIN dirs : Len(p) = Len(path) + 1 /\ SubSeq(p, 1, Len(path)) = path}

\* the orders in which a listing can give the directories of a set
Listings(S) ==
    {f \in [1 .. Cardinality(S) -> S] :
        \A i \in 1 .. Cardinality(S) : \A j \in 1 .. Cardinality(S) : f[i] = f[j] => i = j}

RECURSIVE Loads(_, _)
RECURSIVE LoadsAll(_, _)
\* the sequences of trees read from a sequence of directories
LoadsAll(dirs, paths) ==
    IF paths = <<>> THEN {<<>>}
    ELSE {<<t>> \o rest : t \in Loads(dirs, Head(paths)), rest \in LoadsAll(dirs, Tail(paths))}

\* the trees a reader can build from a directory: the step and uuid of its
\* node.json, and as children the trees of its subdirectories in the order
\* the listing gives them
Loads(dirs, path) ==
    {FNode(dirs[path].step, dirs[path].uuid, kids) :
        kids \in UNION {LoadsAll(dirs, l) : l \in Listings(Subdirs(dirs, path))}}

\* the tree to save: every tree of three labels (the empty one and two whose
\* sanitized names are equal), the root with the uuid generate_task_tree
\* gave it or without one; and a root with one child of any label (written
\* character by character, around the limit of 40 characters, the example)
InitFs ==
    LET LabelChars == {"M", "a", "_", " ", "-", "&"}
        LongLabels ==
            {x[1] \o [i \in 1 .. x[2] |-> "a"] \o x[3] :
                x \in {<<>>, <<" ">>} \X (NameLimit - 2 .. NameLimit)
                       \X {<<>>, <<"-", "M">>, <<"&", "a">>}}
        AllLabels == SeqsUpTo(LabelChars, MaxLabelLen) \cup LongLabels \cup {MixKnead}
        trees == UNION {FsTreesOf(n) : n \in 1 .. MaxFsNodes}
        FsInputs ==
            trees \cup {[t EXCEPT !.uuid = RootUuid] : t \in trees}
            \cup {FNode(<<"a">>, RootUuid, <<FNode(l, NoUuid, <<>>)>>) : l \in AllLabels}
    IN  /\ \E tree \in FsInputs :
              disk = [op |-> "tree", tree |-> tree, dirs |-> <<>>, log |-> <<>>,
                      saved |-> tree, loaded |-> tree]
        /\ TreeIdle /\ norm = Idle /\ emb = Idle /\ gen = Idle /\ flow = Idle

\* save_tree_to_filesystem(tree_content, base_output_dir) on an empty base
\* directory; the supply holds what uuid4() gives, one uuid for each node
\* that has none
SaveTreeToFilesystem ==
    /\ disk.op = "tree"
    /\ \E supply \in Supplies(FsSize(disk.tree) - (IF disk.tree.uuid = NoUuid THEN 0 ELSE 1)) :
          LET r == SaveTree(FsState(disk.dirs, supply, <<>>), disk.tree, <<>>, FALSE)
          IN  disk' = [disk EXCEPT !.op = "save_tree_to_filesystem", !.dirs = r.st.dirs,
                                   !.log = r.st.log, !.saved = r.tree]
    /\ UNCHANGED <<treeVars, norm, emb, gen, flow>>

\* a reader rebuilds the tree from the base directory
LoadTree ==
    /\ disk.op = "save_tree_to_filesystem"
    /\ \E tree \in Loads(disk.dirs, <<>>) :
          disk' = [disk EXCEPT !.op = "load", !.loaded = tree]
    /\ UNCHANGED <<treeVars, norm, emb, gen, flow>>

NextFs ==
    \/ SaveTreeToFilesystem
    \/ LoadTree

SpecFs == InitFs /\ [][NextFs]_vars

IsSaved == disk.op \in {"save_tree_to_filesystem", "load"}
\* the records of the directories of children: all but the base directory
ChildEntries == {i \in 1 .. Len(disk.log) : disk.log[i].path # <<>>}
\* the name of the directory of a record
NameOf(e) == e.path[Len(e.path)]

\* a label without the characters that are neither word characters, white
\* space nor hyphens
WithoutPunctuation(step) ==
    SelectSeq(step, LAMBDA c : LowerChar(c) \in LowerWordChars \cup SepChars)

\* what character i of such a label leaves: a word character itself, in
\* lower case; white space or a hyphen one underscore where its run begins
LeftBy(k, i) ==
    IF k[i] \notin SepChars THEN <<LowerChar(k[i])>>
    ELSE IF i > 1 /\ k[i - 1] \in SepChars THEN <<>>
    ELSE <<"_">>

RECURSIVE LeftUpTo(_, _)
LeftUpTo(k, i) == IF i = 0 THEN <<>> ELSE LeftUpTo(k, i - 1) \o LeftBy(k, i)

\* the sanitized label as the claim describes it
SanitizedLabel(step) ==
    LET all == LeftUpTo(WithoutPunctuation(step), Len(WithoutPunctuation(step)))
    IN  SubSeq(all, 1, IF Len(all) < 40 THEN Len(all) ELSE 40)

\* the sanitized label, or the placeholder token when it is empty
LabelPart(step) ==
    IF SanitizedLabel(step) = <<>> THEN <<"s", "t", "e", "p">> ELSE SanitizedLabel(step)

\* C16: the directory of a child is named by its sanitized label followed by
\* an identifier suffix.  The sanitized label is in lower case, has word
\* characters only, has one underscore for every run of white space and
\* hyphens and is at most 40 characters long; an empty one is replaced by
\* the token "step".  "Mix & Knead Dough!!" gives a name that begins with
\* mix_knead_dough.
C16_DirectoryName ==
    IsSaved =>
        \A i \in ChildEntries :
            LET e == disk.log[i]
            IN  /\ NameOf(e) \in {LabelPart(e.step) \o <<"_">> \o ShortUuid(e.uuid),
                                  LabelPart(e.step) \o <<"_">> \o JoinGroups(e.uuid)}
                /\ Len(SanitizedLabel(e.step)) <= 40
                /\ \A j \in 1 .. Len(SanitizedLabel(e.step)) :
                      SanitizedLabel(e.step)[j] \in LowerWordChars
                /\ e.step = MixKnead =>
                      SubSeq(NameOf(e), 1, 16) =
                          <<"m", "i", "x", "_", "k", "n", "e", "a", "d", "_", "d", "o", "u",
                            "g", "h", "_">>

\* a label of 42 characters that ends in a hyphen and a capital was saved
C16_Witness ==
    /\ IsSaved
    /\ Len(disk.log) = 2
    /\ Len(disk.log[2].step) = 42
    /\ disk.log[2].step[41] = "-"
    /\ Len(NameOf(disk.log[2])) = 42
    /\ NameOf(disk.log[2])[40] = "a"

\* C17: when the name computed for a child exists at its level, the child
\* is stored under the name with its full identifier; so the children of one
\* node are written to different directories, also when their labels are
\* equal, and no directory of a child overwrites another one.
C17_DistinctDirectories ==
    IsSaved =>
        /\ \A i \in ChildEntries :
              disk.log[i].collided =>
                  NameOf(disk.log[i]) =
                      LabelPart(disk.log[i].step) \o <<"_">> \o JoinGroups(disk.log[i].uuid)
        /\ \A i \in 1 .. Len(disk.log) : \A j \in 1 .. Len(disk.log) :
              disk.log[i].path = disk.log[j].path => i = j
        /\ \A i \in 1 .. Len(disk.log) :
              /\ ~disk.log[i].overwrote
              /\ disk.dirs[disk.log[i].path] =
                     [step |-> disk.log[i].step, uuid |-> disk.log[i].uuid]

\* two children of the root with different labels, equal sanitized names and
\* equal short uuids: the second one went under its full uuid
C17_Witness ==
    /\ IsSaved
    /\ Len(disk.log) = 3
    /\ Len(disk.saved.children) = 2
    /\ disk.log[2].step # disk.log[3].step
    /\ ~disk.log[2].collided
    /\ disk.log[3].collided
    /\ NameOf(disk.log[3]) = <<"m", "_", "1", "-", "2">>

\* C18: the tree read back from the directories (node.json of each
\* directory, then its subdirectories in the order they are listed) equals
\* the tree that was saved in label, identifier and order of the children at
\* every level.
C18_RoundTrip == disk.op = "load" => disk.loaded = disk.saved

(***************************************************************************)
(* generate_task_tree of hallucinate-tree.py, call by call.  The recursion *)
(* of expand_step is kept as a stack of frames, the innermost call last.   *)
(* A frame holds the arguments step and current_depth, the position of its *)
(* node in the tree (path), the place the call has reached (pc), its       *)
(* parsed_steps and the index of the substep its loop is at.  gen.log      *)
(* records every call of chat_with_llm and every reply.                    *)
(***************************************************************************)
\* largest depth setting of the input
MaxDepth == 2

\* the replies of the generator: two step objects; a step object that brings
\* its children and one that does not; prose; nothing; a dict; a string and
\* a step object
GenContents ==
    { <<LBracket, LBrace, StepC, RBrace, Comma, LBrace, StepD, RBrace, RBracket>>,
      <<FenceJson, NL, LBracket, LBrace, StepC, Comma, ChildrenOpen, RBracket, RBrace,
        Comma, LBrace, StepD, RBrace, RBracket, NL, Fence>>,
      <<WordDo, NL, WordGo>>,
      <<>>,
      <<LBrace, StepC, RBrace>>,
      <<LBracket, StrC, Comma, LBrace, StepA, RBrace, RBracket>> }

Frame(step, current_depth, path, pc, parsed_steps, idx, tree) ==
    [step |-> step, current_depth |-> current_depth, path |-> path, pc |-> pc,
     parsed_steps |-> parsed_steps, idx |-> idx, tree |-> tree]

\* a test that forgets the children field
ExpandableWithChildren(substep) == substep.t = "dict" /\ substep.step # NoStep

\* isinstance(substep, dict) and "step" in substep and "children" not in substep
Expandable(substep) == substep.t = "dict" /\ substep.step # NoStep /\ ~substep.has

\* the substeps the loop of a frame still recurses into
Pending(frame, depth) ==
    IF frame.current_depth + 1 < depth
    THEN {i \in frame.idx .. Len(frame.parsed_steps) : Expandable(frame.parsed_steps[i])}
    ELSE {}

\* a result whose children are in the reverse order
ResultNodeReversed(step, parsed_steps) ==
    JDict(step, NoUuid, TRUE,
          [i \in 1 .. Len(parsed_steps) |-> parsed_steps[Len(parsed_steps) + 1 - i]])

\* return {"step": step, "children": parsed_steps}
ResultNode(step, parsed_steps) == JDict(step, NoUuid, TRUE, parsed_steps)

\* what chat_with_llm's reply makes of a waiting frame: the loop over the
\* parsed steps, or the tree returned at once (no list: empty children; an
\* exception: the reply as the only child)
AfterReply(frame, content) ==
    LET response_text == chat_with_llm(content)
        r == ParseOutcome(response_text, TRUE)
    IN  IF r.raised
        THEN [frame EXCEPT !.pc = "done",
                 !.tree = ResultNode(frame.step,
                                     <<JDict(Spell(response_text), NoUuid, TRUE, <<>>)>>)]
        ELSE IF r.v.t = "list"
        THEN [frame EXCEPT !.pc = "loop", !.parsed_steps = r.v.children, !.idx = 1]
        ELSE [frame EXCEPT !.pc = "done", !.tree = ResultNode(frame.step, <<>>)]

\* the tree a frame returns when it has nothing left to call
ReturnValue(frame) ==
    IF frame.pc = "loop" THEN ResultNode(frame.step, frame.parsed_steps)
    ELSE IF frame.pc = "done" THEN frame.tree
    ELSE ResultNode(frame.step, <<>>)

Top == gen.stack[Len(gen.stack)]
SetTop(frame) == [gen.stack EXCEPT ![Len(gen.stack)] = frame]

\* tree = expand_step(task, 0) is entered
InitGen ==
    /\ \E depth \in 0 .. MaxDepth :
          gen = [op |-> "expand_step", depth |-> depth,
                 stack |-> <<Frame("T", 0, <<>>, "start", <<>>, 1, JStr(""))>>,
                 log |-> <<>>, tree |-> JStr("")]
    /\ TreeIdle /\ norm = Idle /\ emb = Idle /\ disk = Idle /\ flow = Idle

\* response_text = chat_with_llm(...) is called and blocks
CallLlm ==
    /\ gen.op = "expand_step"
    /\ Top.pc = "start"
    /\ Top.current_depth < gen.depth
    /\ gen' = [gen EXCEPT !.stack = SetTop([Top EXCEPT !.pc = "waiting"]),
                          !.log = Append(@, [ev |-> "call", path |-> Top.path,
                                             steps |-> <<>>])]
    /\ UNCHANGED <<treeVars, norm, emb, disk, flow>>

\* the reply arrives and is parsed
ReplyArrives ==
    /\ gen.op = "expand_step"
    /\ Top.pc = "waiting"
    /\ \E content \in GenContents :
          LET frame == AfterReply(Top, content)
          IN  gen' = [gen EXCEPT !.stack = SetTop(frame),
                                 !.log = Append(@, [ev |-> "reply", path |-> Top.path,
                                                    steps |-> frame.parsed_steps])]
    /\ UNCHANGED <<treeVars, norm, emb, disk, flow>>

\* the loop reaches the next substep to expand:
\* child_tree = expand_step(substep_text, current_depth + 1) is entered
Recurse ==
    /\ gen.op = "expand_step"
    /\ Top.pc = "loop"
    /\ Pending(Top, gen.depth) # {}
    /\ LET i == CHOOSE i \in Pending(Top, gen.depth) :
                    \A j \in Pending(Top, gen.depth) : i <= j
       IN  gen' = [gen EXCEPT !.stack =
                       Append(SetTop([Top EXCEPT !.idx = i]),
                              Frame(Top.parsed_steps[i].step, Top.current_depth + 1,
                                    Append(Top.path, i), "start", <<>>, 1, JStr("")))]
    /\ UNCHANGED <<treeVars, norm, emb, disk, flow>>

\* expand_step returns: to the loop of its caller, which takes the children
\* of the tree returned (substep["children"] = child_tree.get("children", [])),
\* or to generate_task_tree, which gives the tree its uuid
Return ==
    /\ gen.op = "expand_step"
    /\ \/ Top.pc = "done"
       \/ Top.pc = "loop" /\ Pending(Top, gen.depth) = {}
       \/ Top.pc = "start" /\ Top.current_depth >= gen.depth
    /\ LET child_tree == ReturnValue(Top)
           rest == SubSeq(gen.stack, 1, Len(gen.stack) - 1)
           caller == rest[Len(rest)]
       IN  IF rest = <<>>
           THEN \E uuid \in UuidPool :
                    gen' = [gen EXCEPT !.op = "done", !.stack = <<>>,
                                       !.tree = [child_tree EXCEPT !.uuid = uuid]]
           ELSE gen' = [gen EXCEPT !.stack =
                           [rest EXCEPT ![Len(rest)] =
                               [caller EXCEPT
                                   !.parsed_steps[caller.idx] =
                                       [@ EXCEPT !.has = TRUE,
                                                 !.children = child_tree.children],
                                   !.idx = caller.idx + 1]]]
    /\ UNCHANGED <<treeVars, norm, emb, disk, flow>>

NextGen ==
    \/ CallLlm
    \/ ReplyArrives
    \/ Recurse
    \/ Return

SpecGen == InitGen /\ [][NextGen]_vars

\* expand_step is sequential code that runs to its return as long as every
\* chat_with_llm call it blocks on is answered
SpecGenFair == SpecGen /\ WF_vars(NextGen)

\* C19: a uuid is assigned once and never changed: no call changes the uuid
\* of a dict that has one; the expanded node has the uuid of the node that
\* was expanded, and every child the expansion generated has a uuid of its
\* own, different from the uuid of every other node.
C19_IdentifierAssignedOnce ==
    /\ \A a \in Addrs(pre) :
          (pre[a].t = "dict" /\ pre[a].uuid # NoUuid) => heap[a].uuid = pre[a].uuid
    /\ IsExpand =>
          /\ heap[last.ret].uuid = pre[last.tree].uuid
          /\ \A i \in 1 .. Len(last.substeps) :
                heap[last.substeps[i]].t = "dict" =>
                    /\ heap[last.substeps[i]].uuid # NoUuid
                    /\ \A b \in Dicts(heap) :
                          heap[b].uuid = heap[last.substeps[i]].uuid => b = last.substeps[i]

IsGenerated == gen.op = "done"
\* the positions of the calls in the log
CallsInLog == {k \in 1 .. Len(gen.log) : gen.log[k].ev = "call"}

\* in the tree, p lies in an earlier subtree than q: where the paths part,
\* p goes to the earlier sibling
EarlierSibling(p, q) ==
    \E m \in 1 .. Len(p) :
        /\ m <= Len(q)
        /\ SubSeq(p, 1, m - 1) = SubSeq(q, 1, m - 1)
        /\ p[m] < q[m]

\* p is the path of an ancestor of the node at q
Above(p, q) == Len(p) < Len(q) /\ SubSeq(q, 1, Len(p)) = p

RECURSIVE ValueAt(_, _)
\* the node of a tree value at a path of positions that count from 1
ValueAt(tree, path) ==
    IF path = <<>> THEN tree ELSE ValueAt(tree.children[Head(path)], Tail(path))

DotJson == ".json"
Digits == {"0", "1", "2"}
\* Python's None where a string is expected
NoneStr == <<"<None>">>

\* str.isdigit()
IsDigit(cs) == cs # <<>> /\ \A i \in 1 .. Len(cs) : cs[i] \in Digits

\* int(s) of a string of digits
RECURSIVE IntOf(_)
IntOf(cs) ==
    IF cs = <<>> THEN 0
    ELSE 10 * IntOf(SubSeq(cs, 1, Len(cs) - 1))
             + (CHOOSE d \in 0 .. 2 : ToString(d) = cs[Len(cs)])

\* path_str.split('-'): the pieces between the dashes, part being the piece
\* that is being read
RECURSIVE SplitDash(_, _)
SplitDash(cs, part) ==
    IF cs = <<>> THEN <<part>>
    ELSE IF Head(cs) = "-" THEN <<part>> \o SplitDash(Tail(cs), <<>>)
    ELSE SplitDash(Tail(cs), Append(part, Head(cs)))

\* the list of the numbers between the dashes, or None when a piece is no
\* number (int() raises ValueError on it)
parse_path_string(path_str) ==
    LET parts == IF "-" \in {path_str[i] : i \in 1 .. Len(path_str)}
                 THEN SplitDash(path_str, <<>>)
                 ELSE <<path_str>>
    IN  IF \A i \in 1 .. Len(parts) : IsDigit(parts[i])
        THEN [none |-> FALSE, path |-> [i \in 1 .. Len(parts) |-> IntOf(parts[i])]]
        ELSE [none |-> TRUE, path |-> <<>>]

\* arg2 is taken as a node path: it does not end with .json and is a number
\* once its dashes are dropped, or holds a dash
IsNodePathArg(arg2) ==
    /\ ~(arg2 # <<>> /\ arg2[Len(arg2)] = DotJson)
    /\ \/ IsDigit(SelectSeq(arg2, LAMBDA c : c # "-"))
       \/ "-" \in {arg2[i] : i \in 1 .. Len(arg2)}

\* input_filepath, node_path_str, output_filepath, or the exit with the
\* usage message
handle_expand_node_args(argv) ==
    IF Len(argv) < 1 \/ Len(argv) > 3
    THEN [exit |-> TRUE, node_path_str |-> NoneStr, output_filepath |-> NoneStr]
    ELSE LET isPath == Len(argv) >= 2 /\ IsNodePathArg(argv[2])
         IN  [exit |-> FALSE,
              node_path_str |-> IF isPath THEN argv[2] ELSE NoneStr,
              output_filepath |-> IF Len(argv) >= 3 THEN argv[3]
                                  ELSE IF Len(argv) >= 2 /\ ~isPath THEN argv[2]
                                  ELSE NoneStr]

RECURSIVE NormalizeNode(_, _)
RECURSIVE NormalizeChildren(_, _, _)
\* for child in tree["children"]: normalize_tree_for_expansion(child), from
\* the i-th child on
NormalizeChildren(h, tree, i) ==
    IF i > Len(h[tree].children) THEN h
    ELSE NormalizeChildren(NormalizeNode(h, h[tree].children[i]), tree, i + 1)

\* a dict with a step and without children gets an empty children list, in
\* place; then the children of a dict that has children are normalized
NormalizeNode(h, tree) ==
    IF h[tree].t # "dict" THEN h
    ELSE LET h1 == IF h[tree].step # NoStep /\ ~h[tree].has
                   THEN [h EXCEPT ![tree].has = TRUE, ![tree].children = <<>>]
                   ELSE h
         IN  IF h1[tree].has THEN NormalizeChildren(h1, tree, 1) ELSE h1

\* normalize_tree_for_expansion that stops at the root
normalize_root_only(h, tree) ==
    IF h[tree].t = "dict" /\ h[tree].step # NoStep /\ ~h[tree].has
    THEN [h EXCEPT ![tree].has = TRUE, ![tree].children = <<>>]
    ELSE h

\* the heap after the call (the tree itself is returned)
normalize_tree_for_expansion(h, tree) == NormalizeNode(h, tree)

\* the keys of the input file that tell which node to expand: node_path
\* (has_path: the key is there) and node_step (NoStep: the key is not there)
InputData(has_path, node_path, node_step) ==
    [has_path |-> has_path, node_path |-> node_path, node_step |-> node_step]

\* lines 190-197: node_path from the command line or from the input
NodePathOf(args, input) ==
    IF args.node_path_str \notin {NoneStr, <<>>}
    THEN parse_path_string(args.node_path_str)
    ELSE [none |-> FALSE, path |-> IF input.has_path THEN input.node_path ELSE <<>>]

\* lines 206-224: the node to expand, by the path, else by the step text,
\* else the root
FindTarget(h, tree, node_path, node_step) ==
    IF ~node_path.none /\ node_path.path # <<>>
    THEN [by |-> "path", found |-> find_node_by_path(h, tree, node_path.path)]
    ELSE IF node_step \notin {NoStep, ""}
    THEN [by |-> "step", found |-> find_node_by_step_text(h, tree, node_step)]
    ELSE [by |-> "default", found |-> FindResult(tree, <<>>, FALSE, FALSE)]

MainState(pc, argv, input, by, calls, expanded_node, output, exit_code) ==
    [pc |-> pc, argv |-> argv, input |-> input, by |-> by, calls |-> calls,
     expanded_node |-> expanded_node, output |-> output, exit_code |-> exit_code]

\* the program has been started on an input file that holds a tree; the
\* command lines: none or too short, the input file alone, with a second
\* argument (paths that resolve, that do not and that are no paths, and
\* output files), with a path and an output file
InitMain ==
    LET In == <<"x", DotJson>>
        Arg2s == { <<"0">>, <<"1">>, <<"0", "-", "0">>, <<"-", "1">>,
                   <<"1", "-", "x">>, <<"x">>, <<"x", DotJson>> }
        Argvs == {<<>>, <<In>>, <<In, <<"1">>, In>>} \cup {<<In, a>> : a \in Arg2s}
        InputDatas ==
            {InputData(FALSE, <<>>, s) : s \in {NoStep, "B", "Z"}}
            \cup {InputData(TRUE, p, s) :
                     p \in {<<>>, <<0>>, <<1>>, <<-1>>}, s \in {NoStep, "B", "Z"}}
    IN  /\ \E t \in TreeInputs, argv \in Argvs, input \in InputDatas :
              LET r == JsonLoads(<<>>, t)
              IN  /\ heap = [a \in 1 .. Len(r.heap) |-> [r.heap[a] EXCEPT !.uuid = <<a>>]]
                  /\ root = r.addr
                  /\ main = MainState("start", argv, input, "", 0, None, None, -1)
        /\ target_node = None /\ node_path_in_tree = <<>> /\ pre = heap /\ last = Idle
        /\ norm = Idle /\ emb = Idle /\ disk = Idle /\ gen = Idle /\ flow = Idle

\* lines 169-233: the arguments, the load, the normalization and the choice
\* of the node to expand; the program leaves with status 1 on a wrong number
\* of arguments, on an error raised by a search and when no node is found
MainSelect ==
    /\ main.pc = "start"
    /\ LET args == handle_expand_node_args(main.argv)
           h1 == normalize_tree_for_expansion(heap, root)
           node_path == NodePathOf(args, main.input)
           sel == FindTarget(h1, root, node_path, main.input.node_step)
       IN  IF args.exit
           THEN /\ main' = [main EXCEPT !.pc = "usage", !.exit_code = 1]
                /\ UNCHANGED <<heap, target_node, node_path_in_tree>>
           ELSE /\ heap' = h1
                /\ IF sel.found.raised \/ ~Truthy(h1, sel.found.node)
                   THEN /\ main' = [main EXCEPT !.pc = "not found", !.by = sel.by,
                                                !.exit_code = 1]
                        /\ UNCHANGED <<target_node, node_path_in_tree>>
                   ELSE /\ main' = [main EXCEPT !.pc = "selected", !.by = sel.by]
                        /\ target_node' = sel.found.node
                        /\ node_path_in_tree' = sel.found.path
    /\ pre' = heap
    /\ UNCHANGED <<root, last, norm, emb, disk, gen, flow>>

\* lines 238-245: expanded_node = expand_node(target_node, ...), with the
\* reply of the text generator
MainExpand ==
    /\ main.pc = "selected"
    /\ \E content \in {GeneratedCD, <<>>} :
          LET r == expand_node(heap, target_node, content, TRUE)
          IN  /\ heap' = r.heap
              /\ main' = [main EXCEPT !.pc = "expanded", !.calls = @ + 1,
                                      !.expanded_node = r.ret]
    /\ UNCHANGED <<root, target_node, node_path_in_tree, pre, last, norm, emb, disk, gen, flow>>

\* lines 248-274: updated_tree = update_tree_at_path(...) and save_output
MainSave ==
    /\ main.pc = "expanded"
    /\ LET r == update_tree_at_path(heap, root, node_path_in_tree, main.expanded_node)
       IN  IF r.raised
           THEN /\ main' = [main EXCEPT !.pc = "raised", !.exit_code = 1]
                /\ UNCHANGED heap
           ELSE /\ heap' = r.heap
                /\ main' = [main EXCEPT !.pc = "done", !.output = r.ret, !.exit_code = 0]
    /\ UNCHANGED <<root, target_node, node_path_in_tree, pre, last, norm, emb, disk, gen, flow>>

NextMain ==
    \/ MainSelect
    \/ MainExpand
    \/ MainSave

SpecMain == InitMain /\ [][NextMain]_vars

(***************************************************************************)
(* flow-maker.py: main() runs the programs of the pipeline one after the   *)
(* other through run_program and then the alternative trees.  flow.pc is   *)
(* where main is: "loop" at the top of the while loop of the pipeline,     *)
(* "running" while subprocess.run has not come back, "prompt" in the loop  *)
(* that asks the user, "alternatives" at the top of the loop over the      *)
(* alternative inputs, "retry" at the top of the retry loop of one         *)
(* alternative, "done", "stopped" (sys.exit(1) after a stop) or "crashed"  *)
(* (an error nothing catches).  A dict that is shared by reference lives   *)
(* in flow.objs and is named by its index.  Temperatures are counted in    *)
(* hundredths.  flow.passed, flow.last_run, flow.retried, flow.continued   *)
(* and flow.choice tell what has happened so far: the programs whose run   *)
(* came back with success or continue, the last call of run_program that   *)
(* came back, whether a retry and a continue were answered, and the last   *)
(* answer typed at the prompt of the present run.                          *)
(***************************************************************************)
\* largest number of alternative trees an input asks for
MaxAlternatives == 2

\* programs = [...]: the names, in the order of the list
Programs ==
    << "generate-metadata.py", "hallucinate-tree.py", "generate-automation-timeline.py",
       "generate-automation-challenges.py", "automation-adoption.py",
       "current-implementations.py", "return-analysis.py", "future-technology.py",
       "specifications-industrial.py", "assemble.py" >>

NoChoice == "<no answer>"
NoTemperature == -1
NoFile == [task |-> "<no file>", programs_run |-> <<>>]
NoRun == [program |-> "", status |-> ""]

\* what the user may type at the prompt
Answers == {"c", "r", "s", "C", "R", "S", "x", "", " c", "cc"}

\* str.lower()
Lower(choice) ==
    IF choice = "C" THEN "c" ELSE IF choice = "R" THEN "r"
    ELSE IF choice = "S" THEN "s" ELSE choice

\* the prompt that takes every answer but r and s as continue
StatusOfLenient(choice) ==
    IF Lower(choice) = "r" THEN "retry"
    ELSE IF Lower(choice) = "s" THEN "stop"
    ELSE "continue"

\* the status run_program returns for an answer, "" when it asks again
StatusOf(choice) ==
    IF Lower(choice) = "c" THEN "continue"
    ELSE IF Lower(choice) = "r" THEN "retry"
    ELSE IF Lower(choice) = "s" THEN "stop"
    ELSE ""

\* a main loop that goes on to the next program after a retry as well
NextIndexSkipping(program_idx, status) ==
    IF status \in {"success", "continue", "retry"} THEN program_idx + 1 ELSE program_idx

\* program_idx after the status of a pipeline program
NextIndex(program_idx, status) ==
    IF status \in {"success", "continue"} THEN program_idx + 1 ELSE program_idx

\* a retry loop that lacks the break after a continue
AltLoopWithoutBreak(alt_status) == alt_status \in {"retry", "continue"}

\* while alt_status == "retry", with the break of line 190: the alternative
\* is run again
AltLoopGoesOn(alt_status) == alt_status = "retry"

\* 0.3 + (i * 0.15), in hundredths
Temperature(i) == 30 + i * 15

ApproachName(i) ==
    IF i = 0 THEN "Efficiency-Optimized Approach"
    ELSE IF i = 1 THEN "Safety-Optimized Approach"
    ELSE IF i = 2 THEN "Hybridized Approach"
    ELSE "Alternative Approach " \o ToString(i + 1)

RECURSIVE BuildAlternatives(_, _, _, _, _)
\* the loop of lines 146-170 from i on: alt_input is a copy of the keys of
\* input_data, so a parameters dict of the input is shared by every copy,
\* and a copy without one gets a new dict
BuildAlternatives(objs, input_parameters, num_alternatives, i, alternative_inputs) ==
    IF i >= num_alternatives THEN [objs |-> objs, alternative_inputs |-> alternative_inputs]
    ELSE LET fresh == input_parameters = None
             parameters == IF fresh THEN Len(objs) + 1 ELSE input_parameters
             objs1 == IF fresh THEN Append(objs, [temperature |-> NoTemperature]) ELSE objs
             objs2 == [objs1 EXCEPT ![parameters].temperature = Temperature(i)]
             alt_input == [parameters |-> parameters, approach_name |-> ApproachName(i)]
         IN  BuildAlternatives(objs2, input_parameters, num_alternatives, i + 1,
                               Append(alternative_inputs, alt_input))

\* json.dump(alt_input, f): the file holds the values of this moment
SavedInput(objs, alt_input) ==
    [temperature |-> objs[alt_input.parameters].temperature,
     approach_name |-> alt_input.approach_name]

\* programs_run that leaves out the program the flow stands at
ProgramsRunBefore(program_idx) ==
    [k \in 1 .. program_idx - 1 |-> Programs[k]]

\* [p[0] for p in programs[:program_idx]]
ProgramsRun(program_idx) == [k \in 1 .. program_idx |-> Programs[k]]

\* flow-metadata.json
FlowMetadata(task, programs_run) == [task |-> task, programs_run |-> programs_run]

\* main after run_program has returned status: lines 127-137 for a program
\* of the pipeline, lines 186-208 for an alternative tree
Returned(f, status) ==
    LET g == [f EXCEPT !.status = status,
                       !.last_run = [program |-> f.program, status |-> status],
                       !.retried = @ \/ status = "retry",
                       !.continued = @ \/ status = "continue",
                       !.passed = IF f.phase = "pipeline" /\ status \in {"success", "continue"}
                                  THEN Append(@, f.program) ELSE @]
    IN  IF f.phase = "pipeline"
        THEN IF status = "stop" THEN [g EXCEPT !.pc = "stopped", !.exit_code = 1]
             ELSE [g EXCEPT !.pc = "loop", !.program_idx = NextIndex(@, status)]
        ELSE IF status = "stop"
        THEN [g EXCEPT !.pc = "stopped", !.exit_code = 1,
                       !.metadata = FlowMetadata("Complete Automation Flow (interrupted)",
                                                 ProgramsRun(f.program_idx))]
        ELSE IF AltLoopGoesOn(status) THEN [g EXCEPT !.pc = "retry"]
        ELSE [g EXCEPT !.pc = "alternatives", !.i = @ + 1]

\* main has loaded the input, made the flow directory and is at the top of
\* the loop of the pipeline; the input asks for some alternatives and has no
\* parameters, empty parameters or parameters with a temperature
InitFlow ==
    /\ \E n \in 0 .. MaxAlternatives, parameters \in {<<>>, <<NoTemperature>>, <<90>>} :
          flow = [pc |-> "loop", phase |-> "pipeline", program_idx |-> 0,
                  program |-> "", returncode |-> 0, choice |-> NoChoice, status |-> "",
                  num_alternatives |-> n,
                  objs |-> [k \in 1 .. Len(parameters) |-> [temperature |-> parameters[k]]],
                  input_parameters |-> IF parameters = <<>> THEN None ELSE 1,
                  alternative_inputs |-> <<>>, i |-> 0, saved |-> <<>>,
                  inputs_dir |-> FALSE, metadata |-> NoFile, exit_code |-> -1,
                  passed |-> <<>>, last_run |-> NoRun, retried |-> FALSE,
                  continued |-> FALSE]
    /\ TreeIdle /\ norm = Idle /\ emb = Idle /\ disk = Idle /\ gen = Idle

\* lines 109-125: the program at program_idx is started
RunProgram ==
    /\ flow.pc = "loop"
    /\ flow.program_idx < Len(Programs)
    /\ flow' = [flow EXCEPT !.pc = "running", !.program = Programs[flow.program_idx + 1],
                            !.choice = NoChoice]
    /\ UNCHANGED <<treeVars, norm, emb, disk, gen>>

\* subprocess.run comes back with exit status 0: run_program returns
\* "success" (lines 30-35); a program of the pipeline, which is run with
\* -saveInputs, may have made the inputs directory of the flow
ProgramSucceeds ==
    /\ flow.pc = "running"
    /\ \E made \in BOOLEAN :
          flow' = Returned([flow EXCEPT !.returncode = 0,
                                        !.inputs_dir = @ \/ (made /\ flow.phase = "pipeline")],
                           "success")
    /\ UNCHANGED <<treeVars, norm, emb, disk, gen>>

\* subprocess.run raises CalledProcessError: run_program asks the user
ProgramFails ==
    /\ flow.pc = "running"
    /\ \E made \in BOOLEAN :
          flow' = [flow EXCEPT !.pc = "prompt", !.returncode = 1,
                               !.inputs_dir = @ \/ (made /\ flow.phase = "pipeline")]
    /\ UNCHANGED <<treeVars, norm, emb, disk, gen>>

\* lines 43-52: the user types an answer; run_program returns its status or
\* asks again
Answer ==
    /\ flow.pc = "prompt"
    /\ \E choice \in Answers :
          flow' = IF StatusOf(choice) = "" THEN [flow EXCEPT !.choice = choice]
                  ELSE Returned([flow EXCEPT !.choice = choice], StatusOf(choice))
    /\ UNCHANGED <<treeVars, norm, emb, disk, gen>>

\* lines 139-170, after the last program of the pipeline: the alternative
\* inputs are built
GenerateAlternatives ==
    /\ flow.pc = "loop"
    /\ flow.program_idx >= Len(Programs)
    /\ LET b == BuildAlternatives(flow.objs, flow.input_parameters,
                                  flow.num_alternatives, 0, <<>>)
       IN  flow' = [flow EXCEPT !.pc = "alternatives", !.phase = "alternatives",
                                !.objs = b.objs,
                                !.alternative_inputs = b.alternative_inputs]
    /\ UNCHANGED <<treeVars, norm, emb, disk, gen>>

\* lines 173-184: the input of alternative i is saved (open fails when the
\* inputs directory is not there) and hallucinate-tree.py is started on it;
\* after a retry it is started again
StartAlternative ==
    /\ \/ flow.pc = "alternatives" /\ flow.i < Len(flow.alternative_inputs)
       \/ flow.pc = "retry"
    /\ flow' = IF flow.pc = "alternatives" /\ ~flow.inputs_dir
               THEN [flow EXCEPT !.pc = "crashed", !.exit_code = 1]
               ELSE [flow EXCEPT
                        !.pc = "running", !.program = "hallucinate-tree.py",
                        !.choice = NoChoice,
                        !.saved = IF flow.pc = "retry" THEN @
                                  ELSE Append(@, SavedInput(flow.objs,
                                                            flow.alternative_inputs[flow.i + 1]))]
    /\ UNCHANGED <<treeVars, norm, emb, disk, gen>>

\* lines 211-232: flow-metadata.json of the completed flow
Finish ==
    /\ flow.pc = "alternatives"
    /\ flow.i >= Len(flow.alternative_inputs)
    /\ flow' = [flow EXCEPT !.pc = "done", !.exit_code = 0,
                            !.metadata = FlowMetadata("Complete Automation Flow",
                                                      ProgramsRun(Len(Programs)))]
    /\ UNCHANGED <<treeVars, norm, emb, disk, gen>>

\* the steps main takes by itself and the return of a program it waits for
FlowRuns ==
    \/ RunProgram
    \/ ProgramSucceeds
    \/ ProgramFails
    \/ GenerateAlternatives
    \/ StartAlternative
    \/ Finish

NextFlow ==
    \/ FlowRuns
    \/ Answer

SpecFlow == InitFlow /\ [][NextFlow]_vars

\* main goes on while it can and every program that was started comes back;
\* nothing is assumed of the user
SpecFlowFair == SpecFlow /\ WF_vars(FlowRuns)

(***************************************************************************)
(* What the claims say of the flow.                                        *)
(***************************************************************************)
InPipeline == flow.pc # "idle" /\ flow.phase = "pipeline"
InAlternatives == flow.pc # "idle" /\ flow.phase = "alternatives"
\* a program has been started and run_program has not returned
InRunProgram == flow.pc \in {"running", "prompt"}
Terminated == flow.pc \in {"done", "stopped", "crashed"}
\* the first n programs of the list
FirstPrograms(n) == SubSeq(Programs, 1, n)

(***************************************************************************)
(* C25: flow-maker runs the programs of the pipeline strictly in the order *)
(* of the list.  The programs that were passed (success, or continue after *)
(* a failure) are a beginning of the list; the program that is started is  *)
(* the one after those passed, and it is started first of all, after the   *)
(* program before it has returned success or continue, or after a retry of *)
(* itself; after a retry the same program is the next one; assemble.py is  *)
(* started only when the nine programs before it have been passed.         *)
(***************************************************************************)
C25_PipelineOrder ==
    flow.pc # "idle"
    => /\ flow.passed = FirstPrograms(Len(flow.passed))
       /\ (InPipeline /\ InRunProgram)
             => /\ Len(flow.passed) < Len(Programs)
                /\ flow.program = Programs[Len(flow.passed) + 1]
                /\ \/ flow.last_run = NoRun /\ flow.passed = <<>>
                   \/ /\ flow.last_run.status = "retry"
                      /\ flow.last_run.program = flow.program
                   \/ /\ flow.last_run.status \in {"success", "continue"}
                      /\ flow.passed # <<>>
                      /\ flow.last_run.program = flow.passed[Len(flow.passed)]
                /\ flow.program = "assemble.py" => flow.passed = FirstPrograms(9)
       /\ (InPipeline /\ flow.last_run.status = "retry")
             => /\ flow.pc \in {"loop", "running", "prompt"}
                /\ Programs[flow.program_idx + 1] = flow.last_run.program
       /\ InAlternatives => flow.passed = Programs

\* assemble.py is running in a flow in which a retry and a continue were
\* answered
C25_Witness ==
    /\ InPipeline
    /\ flow.pc = "running"
    /\ flow.program = "assemble.py"
    /\ flow.retried
    /\ flow.continued
    /\ flow.program_idx = 9

\* the three parts of C26, for the set of answers the prompt is said to
\* accept: a stop ends the flow with status 1 and nothing is started after
\* it; only a program that failed prompts; an accepted answer ends the
\* prompt with its status and any other answer is asked again
StopAndPromptRule(accepted) ==
    /\ flow.status = "stop"
          => /\ flow.pc = "stopped"
             /\ flow.exit_code = 1
             /\ ~ENABLED NextFlow
    /\ flow.pc = "prompt" => flow.returncode # 0
    /\ flow.last_run.status = "success" /\ ~InRunProgram => flow.choice = NoChoice
    /\ flow.choice # NoChoice
          => /\ flow.returncode # 0
             /\ flow.pc = "prompt" <=> flow.choice \notin accepted
             /\ flow.choice \in accepted
                   => flow.status = (CASE flow.choice \in {"c", "C"} -> "continue"
                                       [] flow.choice \in {"r", "R"} -> "retry"
                                       [] flow.choice \in {"s", "S"} -> "stop")

\* C26 as claimed: once the user answers stop after a failed program, no
\* further program is started and the process exits with status 1; a
\* program that completed successfully never prompts; the prompt accepts
\* only c, r or s and asks again on any other answer.
C26_OnlyCRS == flow.pc # "idle" => StopAndPromptRule({"c", "r", "s"})

\* C26 amended: the same, the prompt accepting c, r or s in either letter
\* case (the answer is lower-cased before it is compared) and asking again
\* on any other answer.
C26_StopIsFinal == flow.pc # "idle" => StopAndPromptRule({"c", "r", "s", "C", "R", "S"})

\* during the alternative trees a failure was answered with S, after an
\* answer that was asked again in the pipeline or not
C26_Witness ==
    /\ InAlternatives
    /\ flow.pc = "stopped"
    /\ flow.choice = "S"
    /\ flow.status = "stop"
    /\ flow.exit_code = 1
    /\ flow.i = 1

\* a failure is at the prompt; it is resolved when run_program has returned
\* anything but retry: a continue, a stop, or the success of a later run
AtPrompt == flow.pc = "prompt"
Resolved == flow.pc \notin {"prompt", "running"} /\ flow.status # "retry"

(***************************************************************************)
(* C27: the flow terminates.  If every failure is followed, sooner or      *)
(* later, by an answer other than retry or by the success of the program,  *)
(* then main reaches its end or exits: it runs forever only through        *)
(* failures that are answered with retry or with invalid input without     *)
(* end.                                                                    *)
(***************************************************************************)
C27_Terminates == [](AtPrompt => <>Resolved) => <>Terminated

\* the flow is done after a retry and a continue, alternatives included
C27_Witness ==
    /\ flow.pc = "done"
    /\ flow.retried
    /\ flow.continued
    /\ flow.num_alternatives = MaxAlternatives
    /\ flow.i = MaxAlternatives

(***************************************************************************)
(* C28: flow-metadata.json is written when the flow is completed and when  *)
(* it is stopped during the alternative trees, and then its programs_run   *)
(* is the list of the programs of the pipeline, each once, in order,       *)
(* whatever was retried or passed with continue; a stop during the         *)
(* pipeline writes no flow-metadata.json.                                  *)
(***************************************************************************)
C28_ProgramsRun ==
    flow.pc # "idle"
    => /\ flow.metadata # NoFile
             <=> (flow.pc = "done" \/ (flow.pc = "stopped" /\ InAlternatives))
       /\ flow.metadata # NoFile => flow.metadata.programs_run = Programs
       /\ (flow.pc = "stopped" /\ InPipeline) => flow.metadata = NoFile

\* the flow was stopped during the alternative trees, after a retry and a
\* continue, and the file lists the ten programs
C28_Witness ==
    /\ flow.pc = "stopped"
    /\ InAlternatives
    /\ flow.retried
    /\ flow.continued
    /\ flow.metadata.task = "Complete Automation Flow (interrupted)"
    /\ Len(flow.metadata.programs_run) = 10

(***************************************************************************)
(* C29: each alternative tree has its own temperature.  The input saved    *)
(* for alternative i (from 0) carries the temperature 0.3 + 0.15 * i, so   *)
(* no two saved inputs of a flow have the same temperature, with and       *)
(* without a parameters object in the original input; and once the         *)
(* alternative inputs are built each of them has the temperature it was    *)
(* given.                                                                  *)
(***************************************************************************)
C29_OwnTemperature ==
    InAlternatives
    => /\ \A k \in 1 .. Len(flow.saved) : flow.saved[k].temperature = 30 + 15 * (k - 1)
       /\ \A k, m \in 1 .. Len(flow.saved) :
             k # m => flow.saved[k].temperature # flow.saved[m].temperature
       /\ \A k \in 1 .. Len(flow.alternative_inputs) :
             flow.objs[flow.alternative_inputs[k].parameters].temperature
                 = 30 + 15 * (k - 1)

(***************************************************************************)
(* What the program was told to expand.                                    *)
(***************************************************************************)
MainArgs == handle_expand_node_args(main.argv)
PathOnCommandLine == ~MainArgs.exit /\ MainArgs.node_path_str # NoneStr
PathInInput == main.input.has_path
StepInInput == main.input.node_step # NoStep
NodeSpecified == PathOnCommandLine \/ PathInInput \/ StepInInput

\* the index paths that were specified, where they can be read as paths
SpecifiedPaths ==
    (IF PathOnCommandLine /\ ~parse_path_string(MainArgs.node_path_str).none
     THEN {parse_path_string(MainArgs.node_path_str).path} ELSE {})
    \cup (IF PathInInput THEN {main.input.node_path} ELSE {})

\* the nodes of the loaded tree that the specification addresses: the node
\* at a specified path of valid positions, the first node in pre-order with
\* the specified step
AddressedNodes ==
    {NodeAt(pre, root, p) : p \in {q \in SpecifiedPaths : ValidPath(pre, root, q)}}
    \cup (IF StepInInput /\ Matches(pre, root, main.input.node_step) # <<>>
          THEN {Head(Matches(pre, root, main.input.node_step)).node} ELSE {})

\* something that was specified addresses no node of the tree
SomeNotFound ==
    \/ PathOnCommandLine /\ parse_path_string(MainArgs.node_path_str).none
    \/ \E p \in SpecifiedPaths : ~ValidPath(pre, root, p)
    \/ StepInInput /\ Matches(pre, root, main.input.node_step) = <<>>

\* the program has chosen a node and goes on to expand it, or has done so
MainExpands == main.pc \in {"selected", "expanded", "done"}

(***************************************************************************)
(* C22: expand-node expands the root by default only when no node was      *)
(* specified.  Once the program has chosen: when neither a node path (on   *)
(* the command line or in the input) nor a node_step was specified, it     *)
(* expands the root; when one was specified, it either expands a node that *)
(* the specification addresses, or, a specified node not being found, has  *)
(* left with status 1, no call of the text generator and no output tree.   *)
(***************************************************************************)
C22_OnlySpecifiedNodeExpanded ==
    main.pc \notin {"idle", "start", "usage"}
    => IF ~NodeSpecified THEN MainExpands /\ target_node = root
       ELSE \/ MainExpands /\ target_node \in AddressedNodes
            \/ /\ main.pc = "not found"
               /\ SomeNotFound
               /\ main.calls = 0
               /\ main.output = None
               /\ main.exit_code = 1

\* the state after the normalization and the choice of the node, before the
\* expansion: heap is the tree as normalized, pre the tree as loaded
IsNormalized == main.pc \in {"selected", "not found"}

(***************************************************************************)
(* C23: after normalize_tree_for_expansion(tree) every node of the tree    *)
(* has a children list (possibly empty), and the nodes are those there     *)
(* were: each has the step, the uuid and the children it had, in their     *)
(* order, and no node was added.                                           *)
(***************************************************************************)
C23_NormalizedTree ==
    IsNormalized
    => /\ \A a \in Reach(heap, root) : heap[a].t = "dict" /\ heap[a].has
       /\ Len(heap) = Len(pre)
       /\ Reach(heap, root) = Reach(pre, root)
       /\ \A a \in Reach(pre, root) :
             /\ heap[a].step = pre[a].step
             /\ heap[a].uuid = pre[a].uuid
             /\ heap[a].children = pre[a].children

\* a tree whose root has two children, the second of them without a
\* children list, has been normalized
C23_Witness ==
    /\ IsNormalized
    /\ Len(pre[root].children) = 2
    /\ ~pre[pre[root].children[2]].has
    /\ heap[heap[root].children[2]].has
    /\ heap[heap[root].children[2]].children = <<>>

(***************************************************************************)
(* The frame of parse_embedded_json.                                       *)
(***************************************************************************)
\* the step text does not begin with "[" or "{", or it does and json.loads
\* fails on it
NotReinterpreted(node) == ~LooksEmbedded(node) \/ ~json_loads(node.step).ok

RECURSIVE LeftUnchanged(_, _)
\* out is in with every node that is not re-interpreted left as it was, at
\* every depth that is reached through such nodes: the step, the title and
\* the children list are the same, and each child has been processed in turn
LeftUnchanged(in, out) ==
    NotReinterpreted(in)
    => /\ out.step = in.step
       /\ out.title = in.title
       /\ out.has = in.has
       /\ Len(out.children) = Len(in.children)
       /\ \A i \in 1 .. Len(in.children) :
             /\ Reinterpreted(FALSE, in.children[i], out.children[i])
             /\ LeftUnchanged(in.children[i], out.children[i])

(***************************************************************************)
(* C24: parse_embedded_json leaves a node unchanged when its step text     *)
(* begins with "[" or "{" and fails to parse as JSON, and when it does not *)
(* begin with "[" or "{": its step, its title and its children list are    *)
(* what they were, and its children have been processed in turn.           *)
(***************************************************************************)
C24_UnparsedNodeUnchanged == IsEmbedded => LeftUnchanged(emb.node, emb.ret)

\* a node with a title whose step only begins like JSON has been left as it
\* was, and its child, whose step holds a list, has got its children
C24_Witness ==
    /\ IsEmbedded
    /\ LooksEmbedded(emb.node)
    /\ ~json_loads(emb.node.step).ok
    /\ emb.node.title = <<>>
    /\ emb.ret.title = <<>>
    /\ emb.ret.step = emb.node.step
    /\ Len(emb.node.children) = 1
    /\ emb.node.children[1].children = <<>>
    /\ Len(emb.ret.children) = 1
    /\ Len(emb.ret.children[1].children) = 2

(***************************************************************************)
(* The frame of a replacement.                                             *)
(***************************************************************************)
\* p is the beginning of q
IsPrefix(p, q) == Len(p) <= Len(q) /\ SubSeq(q, 1, Len(p)) = p

\* the paths of valid zero-based positions of a tree that do not lead into
\* the subtree at path p
PathsOutside(h, a, p) ==
    {q \in PathsOf(MaxNodes) : ValidPath(h, a, q) /\ ~IsPrefix(p, q)}

\* a sequence without its item at the zero-based position i
Without(seq, i) == SubSeq(seq, 1, i) \o SubSeq(seq, i + 2, Len(seq))

(***************************************************************************)
(* C21: update_tree_at_path with a valid path that is not empty changes    *)
(* only the addressed position.  The result has, outside the replaced      *)
(* subtree, the paths the original tree has; the node at each of them has  *)
(* the step, the uuid and the number of children of the node at the same   *)
(* path of the original tree; and the parent of the replaced node has as   *)
(* many children as before, each sibling of the replaced node being what   *)
(* it was, at the position it had.                                         *)
(***************************************************************************)
C21_OnlyAddressedPositionChanges ==
    (IsUpdate /\ last.path # <<>> /\ ValidPath(pre, last.tree, last.path))
    => /\ ~last.raised
       /\ last.ret # None
       /\ PathsOutside(heap, last.ret, last.path)
              = PathsOutside(pre, last.tree, last.path)
       /\ \A q \in PathsOutside(pre, last.tree, last.path) :
              LET before == pre[NodeAt(pre, last.tree, q)]
                  after == heap[NodeAt(heap, last.ret, q)]
              IN  /\ after.t = before.t
                  /\ after.step = before.step
                  /\ after.uuid = before.uuid
                  /\ after.has = before.has
                  /\ Len(after.children) = Len(before.children)
       /\ LET parent == SubSeq(last.path, 1, Len(last.path) - 1)
              position == last.path[Len(last.path)]
              before == pre[NodeAt(pre, last.tree, parent)].children
              after == heap[NodeAt(heap, last.ret, parent)].children
          IN  /\ Len(after) = Len(before)
              /\ after[position + 1] = last.new_node
              /\ Without(Values(heap, after), position)
                     = Without(Values(pre, before), position)

\* the first of two children of the root has been replaced by another node:
\* the root and the second child are outside the replaced subtree
C21_Witness ==
    /\ IsUpdate
    /\ last.path = <<0>>
    /\ Len(pre[last.tree].children) = 2
    /\ ~last.raised
    /\ heap[last.ret].children[1] = last.new_node
    /\ JsonDumps(heap, heap[last.ret].children[2])
           = JsonDumps(pre, pre[last.tree].children[2])
    /\ JsonDumps(heap, last.ret) # JsonDumps(pre, last.tree)

(***************************************************************************)
(* How far generate_task_tree goes.                                        *)
(***************************************************************************)
RECURSIVE Levels(_)
\* the number of levels of a tree value below its root
Levels(node) ==
    IF node.children = <<>> THEN 0
    ELSE LET below == {Levels(node.children[i]) : i \in 1 .. Len(node.children)}
         IN  1 + CHOOSE n \in below : \A m \in below : m <= n

\* the positions of the replies in the log
RepliesInLog == {k \in 1 .. Len(gen.log) : gen.log[k].ev = "reply"}

\* no reply had a step object that brought a children field
NoNestedChildren ==
    \A k \in RepliesInLog : \A i \in 1 .. Len(gen.log[k].steps) : ~gen.log[k].steps[i].has

\* the call at position k of the log was made for a substep that the reply
\* for its parent gave as a step object without a children field
CalledForBareSubstep(k) ==
    LET path == gen.log[k].path
        parent == SubSeq(path, 1, Len(path) - 1)
        i == path[Len(path)]
    IN  \E j \in RepliesInLog :
            /\ j < k
            /\ gen.log[j].path = parent
            /\ i \in 1 .. Len(gen.log[j].steps)
            /\ gen.log[j].steps[i].t = "dict"
            /\ ~gen.log[j].steps[i].has

WithinDepth ==
    gen.op # "idle" =>
       /\ \A k \in CallsInLog : Len(gen.log[k].path) < gen.depth
       /\ \A k \in CallsInLog :
             gen.log[k].path # <<>> => CalledForBareSubstep(k)
       /\ \A k \in 2 .. Len(gen.stack) :
             /\ gen.stack[k - 1].pc = "loop"
             /\ gen.stack[k].path = Append(gen.stack[k - 1].path, gen.stack[k - 1].idx)
             /\ ~gen.stack[k - 1].parsed_steps[gen.stack[k - 1].idx].has
       /\ (IsGenerated /\ gen.depth = 0) =>
             /\ gen.log = <<>>
             /\ gen.tree.has
             /\ gen.tree.children = <<>>
             /\ gen.tree.step = "T"
       /\ (IsGenerated /\ NoNestedChildren) => Levels(gen.tree) <= gen.depth

\* C30: generate_task_tree returns, whatever the depth and whatever the
\* generator replies, as long as every call is answered.  Until then a
\* generation call is made only for a node at a level below the depth (none
\* when the depth is 0, where the tree returned is the root with empty
\* children), a substep is entered only if the reply gave it as a step object
\* without a children field, and when no reply brought a children field the
\* tree returned has at most depth levels below its root.
C30_TerminatesWithinDepth == []WithinDepth /\ <>IsGenerated

\* depth 2: the root and its first substep were asked for, the tree
\* returned has two levels below the root
C30_Witness ==
    /\ IsGenerated
    /\ gen.depth = 2
    /\ NoNestedChildren
    /\ \E k \in CallsInLog : gen.log[k].path = <<1>>
    /\ Levels(gen.tree) = 2


====
